---- MODULE Spec2Model ----
(***************************************************************************)
(* Verification model of proxyvpn (kieled/http-proxy-to-tun).              *)
(*                                                                         *)
(* The module holds several state machines over disjoint groups of         *)
(* variables:                                                              *)
(*   Spec      one flow of the TUN loop (crates/tunstack) together with    *)
(*             its upstream bridge task (ConnState::spawn_proxy_task) and  *)
(*             the CONNECT handshake (crates/proxy);                       *)
(*             SpecLive the same with the fairness of the runtime;         *)
(*   SpecLife  the owner's lifecycle: run_with_args / run_vpn, setup and   *)
(*             teardown (crates/app, crates/tauri-app);                    *)
(*   SpecAlloc the priorities setup gives to its rules beside foreign      *)
(*             rules (crates/app);                                         *)
(*   SpecTeardown  teardown run, and run again, on a recorded state        *)
(*             (crates/app);                                               *)
(*   SpecLock  two processes running StateStore::create_lock on the same   *)
(*             state directory (crates/state);                             *)
(*   SpecLockSolo  the same with one caller at a time;                     *)
(*   SpecPkt   a locally generated packet walking the connection-mark      *)
(*             chain, the policy-routing rules and the kill-switch that    *)
(*             setup installs (crates/mark, crates/netlink,                *)
(*             crates/firewall);                                           *)
(*   SpecFw    the kill-switch rule list built from a FirewallConfig and   *)
(*             evaluated on an egress packet (crates/firewall);            *)
(*   SpecApply NftBackend::apply replacing the owned table                 *)
(*             (crates/firewall);                                          *)
(*   SpecRemove NftBackend::remove deleting it (crates/firewall);          *)
(*   SpecBackends  the native, the nft-command and the iptables form of    *)
(*             the kill-switch judged on one packet (crates/firewall);     *)
(*   SpecStack the TUN loop over all flows, SpecStackLive the same with    *)
(*             the fairness of its timer (crates/tunstack);                *)
(*             SpecStackDown with a shutdown fired while it runs;          *)
(*   SpecSniff sniff_syn applied to a packet (crates/tunstack);            *)
(*   SpecConnect connect_http_connect_with reading the proxy's answer      *)
(*             (crates/proxy);                                             *)
(*   SpecPref, SpecDns, SpecTun  next_pref, resolve_dns_allow_from and     *)
(*             ensure_tun_cidr_free applied to arguments (crates/app).     *)
(* Every specification leaves the other groups at their idle values.       *)
(***************************************************************************)
EXTENDS Integers, Sequences, FiniteSets, TLC

VARIABLES
    \* ---- one flow: TUN loop side (stack.rs) ----
    fl,                 \* "none" | "live" | "removed": the flow's entry in by_key/conns/sockets
    dst,                \* ConnKey.dst of the flow
    tpc,                \* position of the TUN loop inside one iteration
    sockState,          \* smoltcp TcpState of the flow's engine socket
    rxBuf,              \* engine socket receive buffer (bytes of the application)
    txFree,             \* free room in the engine socket transmit buffer
    sockTx,             \* history: bytes written into the engine socket by send_slice
    drained,            \* history: bytes the TUN loop drained from the engine socket
    connected,          \* ConnState.connected
    pending_to_proxy,   \* ConnState.pending_to_proxy (queue of chunks)
    pending_from_proxy, \* ConnState.pending_from_proxy (queue of chunks)
    to_proxy,           \* chunks in flight on the to_proxy channel
    from_proxy,         \* chunks in flight on the from_proxy channel
    txAlive,            \* the sender tx_to_local of the from_proxy channel still exists
    aborted,            \* the flow was removed through the upstream-closed branch
    \* ---- one flow: bridge task side (conn.rs, proxy/lib.rs) ----
    bpc,                \* position of the bridge task
    pending,            \* the task's own `pending` deque
    stream,             \* history: everything written to the upstream proxy stream
    hdr,                \* outcome of the CONNECT handshake
    upRead,             \* history: bytes received from the upstream after the header
    \* ---- lifecycle (run.rs, vpn.rs, teardown.rs) ----
    lpc,                \* position of run_with_args / run_vpn
    front,              \* "cli" (run_with_args) | "gui" (run_vpn)
    killswitch,         \* state.killswitch
    kernel,             \* set of kernel objects of this run that are installed
    recorded,           \* set of objects recorded in the State value setup is building
    shutdownFired,      \* the stack's shutdown sender was fired
    stackRunning,       \* the run_tun_stack task is running
    teardownRuns,       \* number of times teardown was run
    sigSeen,            \* signal delivered to the process after setup ("none" if none)
    files,              \* files present in the state directory: "lock", "state"
    persisted,          \* the records held by state.json as last written
    result,             \* "none" | "ok" | "err": what run_with_args / run_vpn returned
    keepLogs,           \* keep_logs as handed to teardown
    nDns,               \* number of IPv4 addresses in the DNS allow-list
    nPx,                \* number of IPv4 addresses among the proxy IPs
    preRules,           \* priorities of the routing rules present before setup
    extRules,           \* priorities of those rules that are still in the kernel
    tdLog,              \* history: the objects teardown tried to remove, in order
    tdFailed,           \* history: objects a failed teardown step left in the kernel
    tdFirst,            \* history: <<kernel, extRules, files>> when the first teardown returned
    \* ---- lock file (state/lib.rs) ----
    lockFile,           \* [present, owner, content]: the lock file of the state directory
    ppc,                \* per process: position inside create_lock
    alive,              \* per process: still running
    holds,              \* per process: create_lock returned Ok
    clobbered,          \* a lock created by a live process was deleted by another process
    atCall,             \* history, per process: lock file and live PIDs when create_lock began
    \* ---- packet path (mark/nft.rs, netlink/lib.rs, firewall/nft.rs) ----
    pkt,                \* the packet under evaluation
    cfg,                \* what setup installed
    qpc,                \* position of the packet on the output path
    verdict,            \* "pending" | "accept" | "drop"
    \* ---- kill-switch rule list as a function (firewall/nft.rs) ----
    fwc,                \* the FirewallConfig handed to apply
    fwr,                \* the rule list built from it
    fwp,                \* the egress packet evaluated
    fwv,                \* "pending" | "accept" | "drop"
    fpc,                \* "idle" | "build" | "packet" | "eval" | "done"
    \* ---- applying the kill-switch (firewall/lib.rs, firewall/nft.rs) ----
    ktable,             \* the owned table in the kernel: "none" | "old" | "partial" | "new"
    prevTable,          \* the owned table when apply was called
    apc,                \* position of NftBackend::apply
    ares,               \* "none" | "ok" | "err": what apply returned
    aRules,             \* number of accept rules of the new table
    aDone,              \* rules the command backend has added so far; in a removal,
                        \* the nft commands run
    aPriv,              \* [root, nft]: is_root(), find_nft_binary()
    \* ---- the TUN loop over all flows (stack.rs) ----
    spc,                \* position of run_tun_stack
    scause,             \* why run_tun_stack returned ("none" while it runs)
    by_key,             \* HashMap<ConnKey, SocketHandle>
    conns,              \* HashMap<SocketHandle, ConnState>
    sockets,            \* SocketSet: handle -> TCP state of the engine socket
    walk,               \* the handles still to visit in this iteration
    nFlows,             \* history: flows created so far
    dropped,            \* history: keys whose flow was aborted after its upstream failed
    dupSyn,             \* history: a SYN for a key already in by_key was sniffed
    fired,              \* the shutdown sender was fired or dropped (run.rs 85)
    \* ---- the SYN sniffer as a function (packet.rs) ----
    snpc,               \* "idle" | "packet" | "done"
    snpkt,              \* the packet handed to sniff_syn
    snres,              \* what sniff_syn returned: [some, key]
    \* ---- the CONNECT handshake as a function (proxy/lib.rs) ----
    cpc,                \* "idle" | "connect" | "read" | "done"
    cresp,              \* the bytes the proxy answers with, as a sequence of tokens
    ccloses,            \* the proxy closes the connection after its answer
    crd,                \* number of tokens of cresp read into buf so far
    ceof,               \* history: a read returned 0
    cres,               \* what connect_http_connect_with returned
    \* ---- one call of a function of crates/app (config.rs, tun.rs) ----
    fnpc,               \* "idle" | "call" | "done" | "stuck"
    fnin,               \* the arguments
    fnout               \* what the call returned and left in its arguments

flowVars == <<fl, dst, tpc, sockState, rxBuf, txFree, sockTx, drained, connected,
              pending_to_proxy, pending_from_proxy, to_proxy, from_proxy, txAlive,
              aborted, bpc, pending, stream, hdr, upRead>>
lifeVars == <<lpc, front, killswitch, kernel, recorded, shutdownFired, stackRunning,
              teardownRuns, sigSeen, files, persisted, result, keepLogs, nDns, nPx,
              preRules, extRules, tdLog, tdFailed, tdFirst>>
lockVars == <<lockFile, ppc, alive, holds, clobbered, atCall>>
pktVars == <<pkt, cfg, qpc, verdict>>
coreVars == <<flowVars, lifeVars, lockVars, pktVars>>
fwVars == <<fwc, fwr, fwp, fwv, fpc>>
applyVars == <<ktable, prevTable, apc, ares, aRules, aDone, aPriv>>
stackVars == <<spc, scause, by_key, conns, sockets, walk, nFlows, dropped, dupSyn, fired>>
sniffVars == <<snpc, snpkt, snres>>
connVars == <<cpc, cresp, ccloses, crd, ceof, cres>>
callVars == <<fnpc, fnin, fnout>>
pureVars == <<sniffVars, connVars, callVars>>
extVars == <<fwVars, applyVars, stackVars, pureVars>>
vars == <<coreVars, extVars>>

----------------------------------------------------------------------------
(* Bounds of the model *)

\* bytes the application sends on the flow
MaxApp == 3
\* bytes the upstream sends after the response header
MaxUp == 3
\* largest chunk one read returns
MaxChunk == 2
\* room of the engine socket's transmit buffer
TxCap == 1
\* IPv4 addresses in the DNS allow-list
MaxDns == 2
\* IPv4 addresses among the resolved proxy IPs
MaxPx == 2
\* flows the applications open during one run
MaxFlows == 2
\* removals of teardown the kernel refuses
MaxFail == 2
\* u32::MAX of the rule priorities, scaled: priorities are 0..PrefMax
PrefMax == 3
\* calls of next_pref on one set
MaxCalls == 2
\* longest list of addresses given to a function of crates/app
MaxList == 2
\* width of an IPv4 address in bits, scaled: addresses are 0..2^AddrBits - 1 and
\* prefix lengths 0..AddrBits
AddrBits == 3

----------------------------------------------------------------------------
(* Helpers *)

Min(a, b) == IF a < b THEN a ELSE b

IsPrefix(s, t) == Len(s) <= Len(t) /\ SubSeq(t, 1, Len(s)) = s

\* the next k bytes after a history h: bytes are numbered in the order they are produced
NextBytes(h, k) == [i \in 1..k |-> Len(h) + i]


Dsts == {"d1", "d2"}

\* the CONNECT request of the handshake, as one item of the stream
ConnectReqBug(target) == [req |-> "CONNECT", target |-> "d1", host |-> "d1"]
ConnectReq(target) == [req |-> "CONNECT", target |-> target, host |-> target]

----------------------------------------------------------------------------
(* Idle values of the groups a specification does not use *)

\* no lock file; owner 0 is a process that no longer exists, content -1 is a file
\* into which no PID has been written yet (or whose text is no PID), content -2 a
\* file that cannot be opened or read
NoFile == [present |-> FALSE, owner |-> 0, content |-> -1]
NoCall == [file |-> NoFile, alive |-> <<TRUE, TRUE>>]

NoPkt == [fam |-> 4, proto |-> "tcp", daddr |-> "W", dport |-> "none", sockmark |-> 0,
          mark |-> 0, oif |-> "none"]

NoCfg == [proxy_ips |-> <<>>, dns_allow |-> <<>>, killswitch |-> FALSE,
          routeUp |-> FALSE, markRules |-> <<>>, fwRules |-> <<>>,
          ksMark |-> 0, fwmark |-> 0]

FlowIdle ==
    /\ fl = "none" /\ dst = "d1" /\ tpc = "select" /\ sockState = "Closed"
    /\ rxBuf = <<>> /\ txFree = TxCap /\ sockTx = <<>> /\ drained = <<>>
    /\ connected = FALSE /\ pending_to_proxy = <<>> /\ pending_from_proxy = <<>>
    /\ to_proxy = <<>> /\ from_proxy = <<>> /\ txAlive = FALSE /\ aborted = FALSE
    /\ bpc = "none" /\ pending = <<>> /\ stream = <<>> /\ hdr = "none" /\ upRead = <<>>

LifeIdle ==
    /\ lpc = "idle" /\ front = "cli" /\ killswitch = FALSE /\ kernel = {}
    /\ recorded = {} /\ shutdownFired = FALSE /\ stackRunning = FALSE
    /\ teardownRuns = 0 /\ sigSeen = "none" /\ files = {} /\ persisted = {}
    /\ result = "none" /\ keepLogs = FALSE /\ nDns = 0 /\ nPx = 0
    /\ preRules = {} /\ extRules = {} /\ tdLog = <<>> /\ tdFailed = {}
    /\ tdFirst = <<{}, {}, {}>>

LockIdle ==
    /\ lockFile = NoFile /\ ppc = <<"idle", "idle">> /\ alive = <<TRUE, TRUE>>
    /\ holds = <<FALSE, FALSE>> /\ clobbered = FALSE
    /\ atCall = <<NoCall, NoCall>>

PktIdle ==
    /\ pkt = NoPkt /\ cfg = NoCfg /\ qpc = "idle" /\ verdict = "pending"

CoreIdle == FlowIdle /\ LifeIdle /\ LockIdle /\ PktIdle

NoFwc == [proxy_ips |-> <<>>, proxy_port |-> "none", dns_ips |-> <<>>,
          allow_udp_dns |-> FALSE, proxy_mark |-> 0]

FwIdle ==
    /\ fwc = NoFwc /\ fwr = <<>> /\ fwp = NoPkt /\ fwv = "pending" /\ fpc = "idle"

ApplyIdle ==
    /\ ktable = "none" /\ prevTable = "none" /\ apc = "idle" /\ ares = "none"
    /\ aRules = 0 /\ aDone = 0 /\ aPriv = [root |-> FALSE, nft |-> FALSE]

EmptyMap == [x \in {} |-> 0]

StackIdle ==
    /\ spc = "idle" /\ scause = "none" /\ by_key = EmptyMap /\ conns = EmptyMap
    /\ sockets = EmptyMap /\ walk = <<>> /\ nFlows = 0 /\ dropped = {}
    /\ dupSyn = FALSE /\ fired = FALSE

\* Option::None of sniff_syn
NoKey == [src_ip |-> "-", src_port |-> "-", dst_ip |-> "-", dst_port |-> "-"]
SniffNone == [some |-> FALSE, key |-> NoKey]
NoSniffPkt ==
    [ip_checked |-> FALSE, proto |-> "-", tcp_checked |-> FALSE, syn |-> FALSE,
     ack |-> FALSE, src_ip |-> "-", src_port |-> "-", dst_ip |-> "-", dst_port |-> "-"]

SniffIdle == snpc = "idle" /\ snpkt = NoSniffPkt /\ snres = SniffNone

\* Err(..) of connect_http_connect_with: no stream, no leftover
ConnectErr(kind, code) ==
    [kind |-> kind, stream |-> FALSE, some |-> FALSE, leftover |-> <<>>, code |-> code]

ConnIdle ==
    /\ cpc = "idle" /\ cresp = <<>> /\ ccloses = FALSE /\ crd = 0 /\ ceof = FALSE
    /\ cres = ConnectErr("none", "-")

CallIdle == fnpc = "idle" /\ fnin = <<>> /\ fnout = <<>>

PureIdle == SniffIdle /\ ConnIdle /\ CallIdle

ExtIdle == FwIdle /\ ApplyIdle /\ StackIdle /\ PureIdle

----------------------------------------------------------------------------
(* The flow: TUN loop (stack.rs) and bridge task (conn.rs) *)

InitFlow == FlowIdle

FlowOnly == UNCHANGED <<lifeVars, lockVars, pktVars, extVars>>

\* stack.rs 52-63: a SYN for a key not in by_key creates the engine socket (listen on
\* the destination) and ConnState::new; the channels of new() have their other ends
\* dropped at once.
TunSyn ==
    /\ FlowOnly
    /\ tpc = "select" /\ fl = "none"
    /\ \E d \in Dsts : dst' = d
    /\ fl' = "live"
    /\ sockState' = "Listen"
    /\ tpc' = "spawn"
    /\ UNCHANGED <<rxBuf, txFree, sockTx, drained, connected, pending_to_proxy,
                   pending_from_proxy, to_proxy, from_proxy, txAlive, aborted,
                   bpc, pending, stream, hdr, upRead>>

\* what one iface.poll may do to the engine socket (smoltcp, outside the repository):
\* the transitions of a passive socket on which close() is never called.
PollStates(s) ==
    CASE s = "Listen" -> {"Listen", "SynReceived"}
      [] s = "SynReceived" -> {"SynReceived", "Established", "CloseWait", "Listen"}
      [] s = "Established" -> {"Established", "CloseWait", "Closed"}
      [] s = "CloseWait" -> {"CloseWait", "Closed"}
      [] OTHER -> {s}

\* stack.rs 42-73: select (packet or timer), push_rx, iface.poll
TunPoll ==
    /\ FlowOnly
    /\ tpc = "select" /\ fl = "live"
    /\ \E s \in PollStates(sockState), k \in 0..MaxChunk, f \in txFree..TxCap :
          /\ Len(drained) + Len(rxBuf) + k <= MaxApp
          /\ k > 0 => /\ sockState \in {"SynReceived", "Established"}
                      /\ s \in {"SynReceived", "Established", "CloseWait"}
          /\ sockState' = s
          /\ rxBuf' = rxBuf \o NextBytes(drained \o rxBuf, k)
          /\ txFree' = f
    /\ tpc' = "spawn"
    /\ UNCHANGED <<fl, dst, sockTx, drained, connected, pending_to_proxy,
                   pending_from_proxy, to_proxy, from_proxy, txAlive, aborted,
                   bpc, pending, stream, hdr, upRead>>

\* conn.rs 56-57: the queued chunks are moved into the task
SpawnPendingLost(q) == <<>>
SpawnPending(q) == q

\* stack.rs 80-82 and conn.rs 44-92: spawn_proxy_task
TunSpawn ==
    /\ FlowOnly
    /\ tpc = "spawn" /\ fl = "live"
    /\ IF ~connected /\ sockState = "Established"
       THEN /\ pending' = SpawnPending(pending_to_proxy)
            /\ pending_to_proxy' = <<>>
            /\ to_proxy' = <<>>
            /\ from_proxy' = <<>>
            /\ txAlive' = TRUE
            /\ bpc' = "connect"
            /\ connected' = TRUE
       ELSE UNCHANGED <<pending, pending_to_proxy, to_proxy, from_proxy, txAlive,
                        bpc, connected>>
    /\ tpc' = "drain"
    /\ UNCHANGED <<fl, dst, sockState, rxBuf, txFree, sockTx, drained,
                   pending_from_proxy, aborted, stream, hdr, upRead>>

\* stack.rs 84-86: while let Ok(data) = from_proxy.try_recv()
TunDrain ==
    /\ FlowOnly
    /\ tpc = "drain" /\ fl = "live"
    /\ pending_from_proxy' = pending_from_proxy \o from_proxy
    /\ from_proxy' = <<>>
    /\ tpc' = "send"
    /\ UNCHANGED <<fl, dst, sockState, rxBuf, txFree, sockTx, drained, connected,
                   pending_to_proxy, to_proxy, txAlive, aborted, bpc, pending,
                   stream, hdr, upRead>>

\* smoltcp can_send(): may_send() and the transmit buffer is not full
CanSend == sockState \in {"Established", "CloseWait"} /\ txFree > 0

\* stack.rs 91-93: the unwritten suffix goes back to the head of the queue
PutBackTail(rest, q) == q \o <<rest>>
PutBack(rest, q) == <<rest>> \o q

\* stack.rs 89-96: the send loop; p the queue, f the free room, out the bytes written
RECURSIVE SendLoop(_, _, _)
SendLoop(p, f, out) ==
    IF p = <<>>
    THEN [p |-> p, f |-> f, out |-> out]
    ELSE LET data == Head(p)
             sent == Min(Len(data), f)
         IN IF sent < Len(data)
            THEN [p |-> PutBack(SubSeq(data, sent + 1, Len(data)), Tail(p)),
                  f |-> f - sent,
                  out |-> out \o SubSeq(data, 1, sent)]
            ELSE SendLoop(Tail(p), f - sent, out \o data)

\* stack.rs 88-97
TunSend ==
    /\ FlowOnly
    /\ tpc = "send" /\ fl = "live"
    /\ IF CanSend
       THEN LET r == SendLoop(pending_from_proxy, txFree, <<>>)
            IN /\ pending_from_proxy' = r.p
               /\ txFree' = r.f
               /\ sockTx' = sockTx \o r.out
       ELSE UNCHANGED <<pending_from_proxy, txFree, sockTx>>
    /\ tpc' = "recv"
    /\ UNCHANGED <<fl, dst, sockState, rxBuf, drained, connected, pending_to_proxy,
                   to_proxy, from_proxy, txAlive, aborted, bpc, pending, stream,
                   hdr, upRead>>

\* stack.rs 99-110: socket.recv hands over one contiguous part of the receive buffer
\* and the closure consumes all of it
TunRecv ==
    /\ FlowOnly
    /\ tpc = "recv" /\ fl = "live"
    /\ IF rxBuf # <<>>
       THEN \E k \in 1..Len(rxBuf) :
              LET buf == SubSeq(rxBuf, 1, k)
              IN /\ rxBuf' = SubSeq(rxBuf, k + 1, Len(rxBuf))
                 /\ drained' = drained \o buf
                 /\ IF connected
                    THEN /\ to_proxy' = IF bpc = "done" THEN to_proxy
                                        ELSE Append(to_proxy, buf)
                         /\ UNCHANGED pending_to_proxy
                    ELSE /\ pending_to_proxy' = Append(pending_to_proxy, buf)
                         /\ UNCHANGED to_proxy
       ELSE UNCHANGED <<rxBuf, drained, to_proxy, pending_to_proxy>>
    /\ tpc' = "check"
    /\ UNCHANGED <<fl, dst, sockState, txFree, sockTx, connected, pending_from_proxy,
                   from_proxy, txAlive, aborted, bpc, pending, stream, hdr, upRead>>

\* tokio mpsc Receiver::is_closed(): every sender has been dropped
IsClosed == ~txAlive

\* stack.rs 112-126: the two removal tests and the removal
TunCheck ==
    /\ FlowOnly
    /\ tpc = "check" /\ fl = "live"
    /\ LET byState == sockState \in {"Closed", "TimeWait"}
           byUpstream == connected /\ IsClosed /\ pending_from_proxy = <<>>
       IN /\ aborted' = byUpstream
          /\ sockState' = IF byUpstream THEN "Closed" ELSE sockState
          /\ fl' = IF byState \/ byUpstream THEN "removed" ELSE fl
    /\ tpc' = "select"
    /\ UNCHANGED <<dst, rxBuf, txFree, sockTx, drained, connected, pending_to_proxy,
                   pending_from_proxy, to_proxy, from_proxy, txAlive, bpc, pending,
                   stream, hdr, upRead>>

\* proxy/lib.rs 117-142: resolve and connect; on failure the task ends
BridgeConnect ==
    /\ FlowOnly
    /\ bpc = "connect"
    /\ \/ bpc' = "sendreq" /\ UNCHANGED txAlive
       \/ bpc' = "done" /\ txAlive' = FALSE
    /\ UNCHANGED <<fl, dst, tpc, sockState, rxBuf, txFree, sockTx, drained, connected,
                   pending_to_proxy, pending_from_proxy, to_proxy, from_proxy,
                   aborted, pending, stream, hdr, upRead>>

\* proxy/lib.rs 68-80: the request is written to the fresh stream
BridgeSendReq ==
    /\ FlowOnly
    /\ bpc = "sendreq"
    /\ \/ /\ stream' = Append(stream, ConnectReq(dst))
          /\ bpc' = "readhdr" /\ UNCHANGED txAlive
       \/ /\ bpc' = "done" /\ txAlive' = FALSE /\ UNCHANGED stream
    /\ UNCHANGED <<fl, dst, tpc, sockState, rxBuf, txFree, sockTx, drained, connected,
                   pending_to_proxy, pending_from_proxy, to_proxy, from_proxy,
                   aborted, pending, hdr, upRead>>

HdrFailures == {"io_error", "peer_closed", "too_large", "malformed", "rejected"}

\* proxy/lib.rs 103-105: only status 200 is a success
HandshakeOkAny(o) == o \in {"ok200", "rejected"}
HandshakeOk(o) == o = "ok200"

\* proxy/lib.rs 82-114 and conn.rs 59-62: the response is read up to the terminator
\* and parsed; on status 200 the bytes after the header are the leftover, which the
\* task sends on tx_to_local before anything else
BridgeHandshake ==
    /\ FlowOnly
    /\ bpc = "readhdr"
    /\ \E o \in {"ok200"} \cup HdrFailures, k \in 0..MaxChunk :
          /\ Len(upRead) + k <= MaxUp
          /\ o \in {"io_error", "peer_closed", "too_large"} => k = 0
          /\ hdr' = o
          /\ IF HandshakeOk(o)
             THEN /\ upRead' = upRead \o NextBytes(upRead, k)
                  /\ from_proxy' = IF k > 0 THEN Append(from_proxy, NextBytes(upRead, k))
                                   ELSE from_proxy
                  /\ bpc' = "drain_pending"
                  /\ UNCHANGED txAlive
             ELSE /\ bpc' = "done" /\ txAlive' = FALSE
                  /\ UNCHANGED <<upRead, from_proxy>>
    /\ UNCHANGED <<fl, dst, tpc, sockState, rxBuf, txFree, sockTx, drained, connected,
                   pending_to_proxy, pending_from_proxy, to_proxy, aborted, pending,
                   stream>>

\* conn.rs 63-67: the queued chunks are written first, head first; a failed write_all
\* may have written a part of the chunk
BridgeDrainPending ==
    /\ FlowOnly
    /\ bpc = "drain_pending"
    /\ IF pending = <<>>
       THEN bpc' = "loop" /\ UNCHANGED <<pending, stream, txAlive>>
       ELSE \/ /\ stream' = stream \o Head(pending)
               /\ pending' = Tail(pending)
               /\ UNCHANGED <<bpc, txAlive>>
            \/ \E n \in 0..(Len(Head(pending)) - 1) :
                 /\ stream' = stream \o SubSeq(Head(pending), 1, n)
                 /\ pending' = Tail(pending)
                 /\ bpc' = "done" /\ txAlive' = FALSE
    /\ UNCHANGED <<fl, dst, tpc, sockState, rxBuf, txFree, sockTx, drained, connected,
                   pending_to_proxy, pending_from_proxy, to_proxy, from_proxy,
                   aborted, hdr, upRead>>

\* conn.rs 71-75: a chunk of the to_proxy channel is written to the stream
BridgeForward ==
    /\ FlowOnly
    /\ bpc = "loop" /\ to_proxy # <<>>
    /\ to_proxy' = Tail(to_proxy)
    /\ \/ /\ stream' = stream \o Head(to_proxy)
          /\ UNCHANGED <<bpc, txAlive>>
       \/ \E n \in 0..(Len(Head(to_proxy)) - 1) :
            /\ stream' = stream \o SubSeq(Head(to_proxy), 1, n)
            /\ bpc' = "done" /\ txAlive' = FALSE
    /\ UNCHANGED <<fl, dst, tpc, sockState, rxBuf, txFree, sockTx, drained, connected,
                   pending_to_proxy, pending_from_proxy, from_proxy, aborted,
                   pending, hdr, upRead>>

\* conn.rs 76-81: Ok(n): the chunk read is sent on tx_to_local (the send fails
\* silently once the flow, and with it the receiver, is gone)
BridgeRead ==
    /\ FlowOnly
    /\ bpc = "loop"
    /\ \E k \in 1..MaxChunk :
          /\ Len(upRead) + k <= MaxUp
          /\ upRead' = upRead \o NextBytes(upRead, k)
          /\ from_proxy' = IF fl = "removed" THEN from_proxy
                           ELSE Append(from_proxy, NextBytes(upRead, k))
    /\ UNCHANGED <<fl, dst, tpc, sockState, rxBuf, txFree, sockTx, drained, connected,
                   pending_to_proxy, pending_from_proxy, to_proxy, txAlive, aborted,
                   bpc, pending, stream, hdr>>

\* conn.rs 78 and 82: Ok(0) or Err ends the loop; the task's ends are dropped
BridgeEof ==
    /\ FlowOnly
    /\ bpc = "loop"
    /\ bpc' = "done" /\ txAlive' = FALSE
    /\ UNCHANGED <<fl, dst, tpc, sockState, rxBuf, txFree, sockTx, drained, connected,
                   pending_to_proxy, pending_from_proxy, to_proxy, from_proxy,
                   aborted, pending, stream, hdr, upRead>>

----------------------------------------------------------------------------
(* Properties of the flow *)

\* the application bytes written to the upstream stream: everything after the request
AppBytesOf(st) == IF st = <<>> THEN <<>> ELSE Tail(st)

\* C1: at every moment the bytes written to the upstream proxy stream after the
\* CONNECT handshake are a prefix, in order, of the bytes the TUN loop drained from
\* the flow's engine socket, however many chunks were queued before the task was
\* spawned and however many went through the channel afterwards.
C1_ToProxyInOrder == IsPrefix(AppBytesOf(stream), drained)

\* C1 witness: a queued chunk has been written, another queued chunk is still to be
\* written and a channel chunk is already waiting behind them.
C1_Witness ==
    /\ bpc = "drain_pending" /\ Len(stream) > 1
    /\ pending # <<>> /\ to_proxy # <<>>

\* C2: at every moment the bytes written into the engine socket are a prefix of the
\* handshake leftover followed by every chunk read from the upstream, in read order.
C2_FromProxyInOrder == IsPrefix(sockTx, upRead)

\* C2 witness: the leftover of the handshake was larger than the room of the socket;
\* send_slice wrote a part of it and the rest is back at the head of the queue.
C2_Witness ==
    /\ bpc = "drain_pending" /\ Len(upRead) = 2 /\ from_proxy = <<>>
    /\ sockTx = <<1>> /\ pending_from_proxy = << <<2>> >>

\* C3: when the flow is aborted because its upstream closed, no chunk the bridge task
\* sent is still undelivered in the from_proxy channel.
C3_AbortLosesNoChunk == aborted => from_proxy = <<>>

\* C27: once the TUN loop has removed the flow, and with it dropped the flow's ends
\* of both channels, the flow's bridge task eventually ends (which closes its proxy
\* stream), whatever the upstream peer does.
C27_TaskEndsAfterDrop == (fl = "removed" /\ bpc # "none") ~> (bpc = "done")

\* C4: the first item written to an upstream stream is the one CONNECT request for
\* the flow's destination; application bytes follow it only after a complete
\* response header with status 200; after a failed connect or handshake no
\* application byte is written.
C4_ConnectFirst ==
    /\ stream # <<>> => /\ Head(stream) = [req |-> "CONNECT", target |-> dst, host |-> dst]
                        /\ \A i \in 2..Len(stream) : stream[i] \in 1..MaxApp
    /\ Len(stream) > 1 => hdr = "ok200"
    /\ bpc \in {"connect", "sendreq"} => stream = <<>>

\* C4 witness: a flow to the second destination whose handshake succeeded and whose
\* stream carries application bytes after the request.
C4_Witness == dst = "d2" /\ hdr = "ok200" /\ Len(stream) > 1

NextFlow ==
    \/ TunSyn \/ TunPoll \/ TunSpawn \/ TunDrain \/ TunSend \/ TunRecv \/ TunCheck
    \/ BridgeConnect \/ BridgeSendReq \/ BridgeHandshake \/ BridgeDrainPending
    \/ BridgeForward \/ BridgeRead \/ BridgeEof

Init == InitFlow /\ LifeIdle /\ LockIdle /\ PktIdle /\ ExtIdle

Next == NextFlow

Spec == Init /\ [][Next]_vars

\* The flow with the scheduling of the runtime: the TUN loop keeps iterating and a
\* task that can write does write; a connect attempt ends (the kernel bounds it);
\* what the upstream peer does afterwards (answering, sending, closing) is not
\* assumed to happen.
SpecLive ==
    /\ Init /\ [][Next]_vars
    /\ WF_vars(TunPoll) /\ WF_vars(TunSpawn) /\ WF_vars(TunDrain) /\ WF_vars(TunSend)
    /\ WF_vars(TunRecv) /\ WF_vars(TunCheck)
    /\ WF_vars(BridgeConnect) /\ WF_vars(BridgeSendReq)
    /\ WF_vars(BridgeDrainPending) /\ WF_vars(BridgeForward)

----------------------------------------------------------------------------
(* The lifecycle: run_with_args (app/run.rs), run_vpn (tauri-app/vpn.rs), setup and
   teardown (app/teardown.rs).  Kernel objects are named "route" (default route in
   table 100), "mark" (connection-mark table), "fwmark" (fwmark rule), "dns1"..
   and "px1".. (bypass rules) and "killswitch" (kill-switch table). *)

LifeOnly == UNCHANGED <<flowVars, lockVars, pktVars, extVars>>

DnsName == <<"dns1", "dns2", "dns3", "dns4">>
PxName == <<"px1", "px2", "px3", "px4">>
DnsRules(n) == {DnsName[i] : i \in 1..n}
PxRules(n) == {PxName[i] : i \in 1..n}

\* run.rs 142, 156, 157: where setup starts looking for a free priority
TcpPrefStart == 1000
DnsPrefStart == 200
PxPrefStart == 300

\* the sets of rule priorities another owner may hold before setup
ForeignPrefs == SUBSET {200, 201, 1000}

\* config.rs 112-118: the loop of next_pref over the priorities 0..max. At max the
\* increment overflows: a build with overflow checks panics, one without wraps to 0;
\* -1 stands for a call that does not return (the panic, or a loop over a full set).
RECURSIVE NextPrefW(_, _, _, _, _)
NextPrefW(prefs, pref, max, wraps, wrapped) ==
    IF pref \notin prefs THEN pref
    ELSE IF pref < max THEN NextPrefW(prefs, pref + 1, max, wraps, wrapped)
    ELSE IF wraps /\ ~wrapped THEN NextPrefW(prefs, 0, max, wraps, TRUE)
    ELSE -1

\* a next_pref that takes the start value whether or not it is in use
next_pref_taken(prefs, pref) == pref

\* next_pref on the priorities of a run: they stay far below u32::MAX, the scan is
\* cut at the largest integer of the checker
next_pref(prefs, pref) == NextPrefW(prefs, pref, 2147483647, TRUE, FALSE)

\* an add_bypass_rules that looks for every priority from the start value in the
\* set as it was handed in
AllocPrefsSameStart(prefs, start, n) == [i \in 1..n |-> next_pref(prefs, start)]

\* config.rs 80-99: the priorities add_bypass_rules gives to n addresses
RECURSIVE AllocPrefs(_, _, _)
AllocPrefs(prefs, start, n) ==
    IF n = 0 THEN <<>>
    ELSE LET p == next_pref(prefs, start)
         IN <<p>> \o AllocPrefs(prefs \cup {p}, p + 1, n - 1)

\* run.rs 141-157: the priorities of the rules of this run
TcpPref == next_pref(preRules, TcpPrefStart)
DnsPrefs == AllocPrefs(preRules \cup {TcpPref}, DnsPrefStart, nDns)
PxPrefs ==
    AllocPrefs(preRules \cup {TcpPref} \cup {DnsPrefs[i] : i \in 1..nDns},
               PxPrefStart, nPx)
IsRule(o) == o \in {"fwmark"} \cup DnsRules(nDns) \cup PxRules(nPx)
PrefOf(o) ==
    IF o = "fwmark" THEN TcpPref
    ELSE IF o \in DnsRules(nDns)
         THEN DnsPrefs[CHOOSE i \in 1..nDns : DnsName[i] = o]
         ELSE PxPrefs[CHOOSE i \in 1..nPx : PxName[i] = o]

InitLife ==
    /\ lpc = "preflight"
    /\ front \in {"cli", "gui"}
    /\ killswitch \in BOOLEAN
    /\ keepLogs \in BOOLEAN
    /\ nDns \in 0..MaxDns
    /\ nPx \in 0..MaxPx
    /\ kernel = {} /\ recorded = {} /\ persisted = {} /\ files = {}
    /\ shutdownFired = FALSE /\ stackRunning = FALSE
    /\ teardownRuns = 0 /\ sigSeen = "none" /\ result = "none"
    /\ preRules \in ForeignPrefs /\ extRules = preRules
    /\ tdLog = <<>> /\ tdFailed = {} /\ tdFirst = <<{}, {}, {}>>

\* run.rs 70, vpn.rs 76 (and every other `?` of run_with_args / run_vpn): the error is
\* returned to the caller at once
FailReturn ==
    /\ lpc' = "returned"
    /\ result' = "err"

\* what run_with_args / run_vpn does with an error of setup
OnSetupError == FailReturn

LifeFrame == UNCHANGED <<front, killswitch, keepLogs, nDns, nPx, shutdownFired,
                         stackRunning, teardownRuns, sigSeen, preRules, extRules,
                         tdLog, tdFailed, tdFirst>>

\* run.rs 30-46, vpn.rs 39-52: preconditions, proxy IPs, backends, netlink
Preflight ==
    /\ LifeOnly /\ LifeFrame
    /\ lpc = "preflight"
    /\ \/ lpc' = "lock" /\ UNCHANGED result
       \/ FailReturn
    /\ UNCHANGED <<kernel, recorded, persisted, files>>

\* run.rs 48-50, vpn.rs 54-56: ensure_dir and create_lock
TakeLock ==
    /\ LifeOnly /\ LifeFrame
    /\ lpc = "lock"
    /\ \/ lpc' = "tun" /\ files' = files \cup {"lock"} /\ UNCHANGED result
       \/ FailReturn /\ UNCHANGED files
    /\ UNCHANGED <<kernel, recorded, persisted>>

\* run.rs 52-56, vpn.rs 58-62: parse_tun_cidr, ensure_tun_cidr_free, create_tun_device
CreateTun ==
    /\ LifeOnly /\ LifeFrame
    /\ lpc = "tun"
    /\ \/ lpc' = "s_route" /\ UNCHANGED result
       \/ FailReturn
    /\ UNCHANGED <<kernel, recorded, persisted, files>>

\* run.rs 130-134: the default route of table 100
SetupRoute ==
    /\ LifeOnly /\ LifeFrame
    /\ lpc = "s_route"
    /\ \/ lpc' = "s_prefs" /\ kernel' = kernel \cup {"route"} /\ UNCHANGED result
       \/ OnSetupError /\ UNCHANGED kernel
    /\ UNCHANGED <<recorded, persisted, files>>

\* run.rs 136-142: DNS allow-list, snapshot of the rule priorities
SetupPrefs ==
    /\ LifeOnly /\ LifeFrame
    /\ lpc = "s_prefs"
    /\ \/ lpc' = "s_mark" /\ UNCHANGED result
       \/ OnSetupError
    /\ UNCHANGED <<kernel, recorded, persisted, files>>

\* run.rs 146-148: mark.apply; the command fallback creates the table before the
\* rules, so a failure may leave the table behind
SetupMark ==
    /\ LifeOnly /\ LifeFrame
    /\ lpc = "s_mark"
    /\ \/ lpc' = "s_fwmark" /\ kernel' = kernel \cup {"mark"} /\ UNCHANGED result
       \/ OnSetupError /\ \E left \in BOOLEAN :
                            kernel' = IF left THEN kernel \cup {"mark"} ELSE kernel
    /\ UNCHANGED <<recorded, persisted, files>>

\* run.rs 150-153: the fwmark rule, recorded in the State value
SetupFwmark ==
    /\ LifeOnly /\ LifeFrame
    /\ lpc = "s_fwmark"
    /\ \/ /\ lpc' = "s_write1"
          /\ kernel' = kernel \cup {"fwmark"}
          /\ recorded' = recorded \cup {"fwmark"}
          /\ UNCHANGED result
       \/ OnSetupError /\ UNCHANGED <<kernel, recorded>>
    /\ UNCHANGED <<persisted, files>>

\* a setup that goes on to the kill-switch right after the first write_state
AfterWriteSkipsBypass(pos) ==
    CASE pos = "s_write1" -> "s_kill"
      [] pos = "s_write2" -> "s_kill"
      [] OTHER -> "spawn"

\* run.rs 154-156, 160-162, 172-175: what follows each write_state
AfterWrite(pos) ==
    CASE pos = "s_write1" -> "s_dns"
      [] pos = "s_write2" -> "s_kill"
      [] OTHER -> "spawn"

\* run.rs 154, 160, 172: write_state
WriteState ==
    /\ LifeOnly /\ LifeFrame
    /\ lpc \in {"s_write1", "s_write2", "s_write3"}
    /\ \/ /\ persisted' = recorded
          /\ files' = files \cup {"state"}
          /\ lpc' = AfterWrite(lpc)
          /\ UNCHANGED result
       \/ OnSetupError /\ UNCHANGED <<persisted, files>>
    /\ UNCHANGED <<kernel, recorded>>

\* run.rs 156 and config.rs 80-99: one bypass rule per DNS address
SetupDnsRule ==
    /\ LifeOnly /\ LifeFrame
    /\ lpc = "s_dns"
    /\ LET done == Cardinality(kernel \cap DnsRules(nDns))
       IN IF done = nDns
          THEN lpc' = "s_px" /\ UNCHANGED <<kernel, result>>
          ELSE \/ /\ kernel' = kernel \cup {DnsName[done + 1]}
                  /\ UNCHANGED <<lpc, result>>
               \/ OnSetupError /\ UNCHANGED kernel
    /\ UNCHANGED <<recorded, persisted, files>>

\* run.rs 157-159 and config.rs 80-99: one bypass rule per proxy address; then both
\* lists are recorded in the State value
SetupPxRule ==
    /\ LifeOnly /\ LifeFrame
    /\ lpc = "s_px"
    /\ LET done == Cardinality(kernel \cap PxRules(nPx))
       IN IF done = nPx
          THEN /\ lpc' = "s_write2"
               /\ recorded' = recorded \cup DnsRules(nDns) \cup PxRules(nPx)
               /\ UNCHANGED <<kernel, result>>
          ELSE \/ /\ kernel' = kernel \cup {PxName[done + 1]}
                  /\ UNCHANGED <<lpc, result, recorded>>
               \/ OnSetupError /\ UNCHANGED <<kernel, recorded>>
    /\ UNCHANGED <<persisted, files>>

\* run.rs 162-173: the kill-switch, when enabled; the command fallback may leave the
\* table behind when a rule fails
SetupKill ==
    /\ LifeOnly /\ LifeFrame
    /\ lpc = "s_kill"
    /\ IF ~killswitch
       THEN lpc' = "spawn" /\ UNCHANGED <<kernel, recorded, result>>
       ELSE \/ /\ lpc' = "s_write3"
               /\ kernel' = kernel \cup {"killswitch"}
               /\ recorded' = recorded \cup {"killswitch"}
               /\ UNCHANGED result
            \/ /\ OnSetupError
               /\ \E left \in BOOLEAN :
                    kernel' = IF left THEN kernel \cup {"killswitch"} ELSE kernel
               /\ UNCHANGED recorded
    /\ UNCHANGED <<persisted, files>>

\* run.rs 72-79, vpn.rs 78-85: the stack task is spawned
SpawnStack ==
    /\ LifeOnly
    /\ lpc = "spawn"
    /\ lpc' = "running"
    /\ stackRunning' = TRUE
    /\ UNCHANGED <<front, killswitch, keepLogs, nDns, nPx, shutdownFired, teardownRuns,
                   sigSeen, kernel, recorded, persisted, files, result,
                   preRules, extRules, tdLog, tdFailed, tdFirst>>

\* the signals run_with_args waits for in its select (run.rs 83)
HandledSignals == {"SIGINT"}

\* run.rs 82-87: a signal arrives while the owner waits in the select. A handled
\* signal resolves ctrl_c(): the shutdown sender is fired and the owner awaits the
\* stack. Any other signal has its default disposition: the process is terminated.
Signal ==
    /\ LifeOnly
    /\ lpc = "running" /\ front = "cli"
    /\ \E sig \in {"SIGINT", "SIGTERM"} :
         /\ sigSeen' = sig
         /\ IF sig \in HandledSignals
            THEN /\ shutdownFired' = TRUE
                 /\ lpc' = "stopping"
                 /\ UNCHANGED stackRunning
            ELSE /\ lpc' = "killed"
                 /\ stackRunning' = FALSE
                 /\ UNCHANGED shutdownFired
    /\ UNCHANGED <<front, killswitch, keepLogs, nDns, nPx, teardownRuns, kernel,
                   recorded, persisted, files, result,
                   preRules, extRules, tdLog, tdFailed, tdFirst>>

\* vpn.rs 89-92 and commands.rs 258-261: the disconnect command fires shutdown_rx
GuiDisconnect ==
    /\ LifeOnly
    /\ lpc = "running" /\ front = "gui"
    /\ shutdownFired' = TRUE
    /\ lpc' = "stopping"
    /\ UNCHANGED <<front, killswitch, keepLogs, nDns, nPx, stackRunning, teardownRuns,
                   sigSeen, kernel, recorded, persisted, files, result,
                   preRules, extRules, tdLog, tdFailed, tdFirst>>

\* stack.rs 49-51, 65-66: run_tun_stack leaves its loop (shutdown observed, TUN
\* closed, or an error)
StackExit ==
    /\ LifeOnly
    /\ lpc \in {"running", "stopping"} /\ stackRunning
    /\ stackRunning' = FALSE
    /\ UNCHANGED <<lpc, front, killswitch, keepLogs, nDns, nPx, shutdownFired,
                   teardownRuns, sigSeen, kernel, recorded, persisted, files, result,
                   preRules, extRules, tdLog, tdFailed, tdFirst>>

\* teardown.rs 21-56: what each step of teardown tries to remove, in order
TdItems(step) ==
    CASE step = "td_fw" ->
           IF "killswitch" \in recorded THEN <<"killswitch">> ELSE <<>>
      [] step = "td_mark" -> <<"mark">>
      [] step = "td_fwmark" -> IF "fwmark" \in recorded THEN <<"fwmark">> ELSE <<>>
      [] step = "td_dns" ->
           IF DnsRules(nDns) \subseteq recorded
           THEN [i \in 1..nDns |-> DnsName[i]] ELSE <<>>
      [] step = "td_px" ->
           IF PxRules(nPx) \subseteq recorded
           THEN [i \in 1..nPx |-> PxName[i]] ELSE <<>>
      [] OTHER -> <<"route">>

\* a teardown that sweeps the mark table after the rules
TdNextMarkLate(step) ==
    CASE step = "td_fw" -> "td_fwmark"
      [] step = "td_fwmark" -> "td_mark"
      [] step = "td_mark" -> "td_dns"
      [] step = "td_dns" -> "td_px"
      [] step = "td_px" -> "td_routes"
      [] OTHER -> "td_files"

TdNext(step) ==
    CASE step = "td_fw" -> "td_mark"
      [] step = "td_mark" -> "td_fwmark"
      [] step = "td_fwmark" -> "td_dns"
      [] step = "td_dns" -> "td_px"
      [] step = "td_px" -> "td_routes"
      [] OTHER -> "td_files"

\* the first step from `step` on that has something to remove
RECURSIVE TdSkip(_)
TdSkip(step) ==
    IF step = "td_files" \/ TdItems(step) # <<>> THEN step ELSE TdSkip(TdNext(step))

\* run.rs 86-96, vpn.rs 91-101: the owner sees the stack task finished and starts
\* teardown
BeginTeardown ==
    /\ LifeOnly
    /\ lpc \in {"running", "stopping"} /\ ~stackRunning
    /\ lpc' = TdSkip("td_fw")
    /\ teardownRuns' = teardownRuns + 1
    /\ UNCHANGED <<front, killswitch, keepLogs, nDns, nPx, shutdownFired, stackRunning,
                   sigSeen, kernel, recorded, persisted, files, result,
                   preRules, extRules, tdLog, tdFailed, tdFirst>>

\* teardown.rs 21-56: one removal, best effort: an error is printed and the next
\* removal follows. netlink/lib.rs 132-151: delete_rule_pref deletes every rule that
\* has the priority.
TeardownStep ==
    /\ LifeOnly
    /\ lpc \in {"td_fw", "td_mark", "td_fwmark", "td_dns", "td_px", "td_routes"}
    /\ LET items == TdItems(lpc)
           done == Cardinality({i \in 1..Len(items) :
                                  \E j \in 1..Len(tdLog) : tdLog[j] = items[i]})
           o == items[done + 1]
       IN /\ done < Len(items)
          /\ tdLog' = Append(tdLog, o)
          /\ \E ok \in IF Cardinality(tdFailed) < MaxFail THEN BOOLEAN ELSE {TRUE} :
               IF ok
               THEN /\ kernel' = kernel \ {o}
                    /\ extRules' = IF IsRule(o) THEN extRules \ {PrefOf(o)} ELSE extRules
                    /\ UNCHANGED tdFailed
               ELSE /\ tdFailed' = tdFailed \cup ({o} \cap kernel)
                    /\ UNCHANGED <<kernel, extRules>>
          /\ lpc' = IF done + 1 < Len(items) THEN lpc ELSE TdSkip(TdNext(lpc))
    /\ UNCHANGED <<front, killswitch, keepLogs, nDns, nPx, shutdownFired, stackRunning,
                   teardownRuns, sigSeen, recorded, persisted, files, result,
                   preRules, tdFirst>>

\* a remove_state_files that reports a missing lock file
RemoveStateFilesStrict(fs) == IF "lock" \in fs THEN "ok" ELSE "err"

\* state/lib.rs 150-158: remove_state_files ignores the result of every removal
RemoveStateFiles(fs) == "ok"

\* teardown.rs 58 and state/lib.rs 150-158: remove_state_files, then Ok
TeardownFiles ==
    /\ LifeOnly
    /\ lpc = "td_files"
    /\ files' = IF keepLogs THEN files \ {"lock"} ELSE {}
    /\ lpc' = "returned"
    /\ result' = RemoveStateFiles(files)
    /\ tdFirst' = IF teardownRuns = 1 THEN <<kernel, extRules, files'>> ELSE tdFirst
    /\ UNCHANGED <<front, killswitch, keepLogs, nDns, nPx, shutdownFired, stackRunning,
                   teardownRuns, sigSeen, kernel, recorded, persisted,
                   preRules, extRules, tdLog, tdFailed>>

NextLife ==
    \/ Preflight \/ TakeLock \/ CreateTun \/ SetupRoute \/ SetupPrefs \/ SetupMark
    \/ SetupFwmark \/ WriteState \/ SetupDnsRule \/ SetupPxRule \/ SetupKill
    \/ SpawnStack \/ Signal \/ GuiDisconnect \/ StackExit \/ BeginTeardown
    \/ TeardownStep \/ TeardownFiles

InitL == InitLife /\ FlowIdle /\ LockIdle /\ PktIdle /\ ExtIdle

SpecLife == InitL /\ [][NextLife]_vars

\* run.rs 153, 158-159, 171: what a setup that succeeded has recorded
FullRecordOf ==
    {"fwmark"} \cup DnsRules(nDns) \cup PxRules(nPx)
    \cup (IF killswitch THEN {"killswitch"} ELSE {})

\* C5: when a startup step fails after a kernel object of this run was installed,
\* teardown runs before run_with_args / run_vpn returns, so no object of this run is
\* left in the kernel when the error is returned.
C5_SetupFailureTornDown == (lpc = "returned" /\ result = "err") => kernel = {}

\* C6: after setup has completed, each of SIGINT and SIGTERM leads to teardown before
\* the process ends.
C6_SignalsRunTeardown ==
    (sigSeen # "none" /\ lpc \in {"returned", "killed"}) => teardownRuns > 0

\* the order of removals the teardown of this run has to follow
TdOrder ==
    (IF "killswitch" \in recorded THEN <<"killswitch">> ELSE <<>>)
    \o <<"mark">>
    \o (IF "fwmark" \in recorded THEN <<"fwmark">> ELSE <<>>)
    \o [i \in 1..nDns |-> DnsName[i]]
    \o [i \in 1..nPx |-> PxName[i]]
    \o <<"route">>

\* C22: teardown tries the removals in the fixed order kill-switch (when recorded),
\* connection-mark sweep, fwmark rule, each DNS bypass rule, each proxy bypass rule,
\* routes of the proxy table, and removes the state files last; a removal that fails
\* does not keep any later one from being tried.
C22_TeardownOrder ==
    teardownRuns > 0 =>
        /\ Len(tdLog) <= Len(TdOrder) /\ tdLog = SubSeq(TdOrder, 1, Len(tdLog))
        /\ lpc \in {"td_files", "returned"} => tdLog = TdOrder
        /\ lpc \notin {"td_files", "returned"} => "lock" \in files
        /\ lpc = "returned" => "lock" \notin files

\* C22 witness: teardown has returned after the removal of the kill-switch and of a
\* DNS bypass rule failed; the rules behind them were still tried.
C22_Witness ==
    /\ lpc = "returned" /\ teardownRuns = 1
    /\ {"killswitch", "dns1"} \subseteq tdFailed
    /\ nDns = 2 /\ nPx = 2 /\ Len(tdLog) = 8
    /\ {"dns2", "px1", "px2", "route"} \cap kernel = {}


\* C23: when setup succeeded and teardown has run without a failing removal, the
\* routing rules are exactly those present before setup, table 100 has no route, the
\* kill-switch table and the mark table are absent, the lock file is gone, and
\* state.json is gone unless keep_logs.
C23_TeardownRestores ==
    (lpc = "returned" /\ teardownRuns > 0 /\ tdFailed = {}) =>
        /\ extRules = preRules
        /\ kernel \cap ({"fwmark"} \cup DnsRules(nDns) \cup PxRules(nPx)) = {}
        /\ "route" \notin kernel
        /\ "killswitch" \notin kernel /\ "mark" \notin kernel
        /\ "lock" \notin files
        /\ ~keepLogs => "state" \notin files

\* C23 witness: a run with kill-switch, two DNS and two proxy bypass rules, and foreign
\* rules on the priorities 200, 201 and 1000, has been torn down.
C23_Witness ==
    /\ lpc = "returned" /\ result = "ok" /\ teardownRuns = 1 /\ tdFailed = {}
    /\ killswitch /\ nDns = 2 /\ nPx = 2 /\ preRules = {200, 201, 1000}
    /\ tdLog = TdOrder

\* run.rs 132-173: the kernel objects of a run in the order setup installs them
SetupOrder ==
    <<"route", "mark", "fwmark">>
    \o [i \in 1..nDns |-> DnsName[i]]
    \o [i \in 1..nPx |-> PxName[i]]
    \o (IF killswitch THEN <<"killswitch">> ELSE <<>>)

\* C32: setup installs the kernel objects in the order default route, connection-mark
\* rules, fwmark rule, DNS bypass rules, proxy bypass rules, kill-switch (only when
\* enabled): until teardown begins, the objects installed are an initial part of that
\* order, and the TUN engine is spawned only when all of them are installed.
C32_SetupOrder ==
    teardownRuns = 0 =>
      /\ \E k \in 0..Len(SetupOrder) : kernel = {SetupOrder[i] : i \in 1..k}
      /\ (stackRunning \/ lpc \in {"spawn", "running", "stopping"})
           => kernel = {SetupOrder[i] : i \in 1..Len(SetupOrder)}
      /\ "killswitch" \in kernel => killswitch

\* C32 witness: the engine runs after a setup with two DNS bypass rules, two proxy
\* bypass rules and the kill-switch.
C32_Witness ==
    /\ lpc = "running" /\ stackRunning /\ teardownRuns = 0
    /\ killswitch /\ nDns = 2 /\ nPx = 2
    /\ kernel = {"route", "mark", "fwmark", "dns1", "dns2", "px1", "px2", "killswitch"}

\* the objects teardown removes only when the State value names them
\* (teardown.rs 22-26, 34-48)
Recordable == {"fwmark", "killswitch"} \cup DnsRules(nDns) \cup PxRules(nPx)

\* C33: rule records are persisted as the rules are installed: whenever setup is about
\* to run a step that installs kernel objects and can fail, and from then on while the
\* run lasts, every routing rule and packet-filter table this run has installed is
\* recorded in state.json as last written.
C33_InstalledIsPersisted ==
    (teardownRuns = 0 /\ lpc \in {"s_dns", "s_px", "s_kill", "spawn", "running",
                                   "stopping", "killed"})
    => (kernel \cap Recordable) \subseteq persisted

\* the positions of the owner inside teardown
TdSteps == {"td_fw", "td_mark", "td_fwmark", "td_dns", "td_px", "td_routes", "td_files"}

\* C31: teardown never begins while the TUN engine task is still running, and it is
\* invoked exactly once per successful setup: never twice, and once the owner has
\* ended after a setup that succeeded, whether by returning or by a signal, teardown
\* has been invoked.
C31_TeardownOncePerSetup ==
    /\ lpc \in TdSteps => (~stackRunning /\ teardownRuns = 1)
    /\ teardownRuns <= 1
    /\ teardownRuns = 1 => recorded = FullRecordOf
    /\ (lpc = "returned" /\ result = "ok") => teardownRuns = 1
    /\ lpc = "killed" => teardownRuns = 1

----------------------------------------------------------------------------
(* teardown as a function of the State value setup returned: applied to the    *)
(* kernel a successful setup leaves, and applied once more to what it left.    *)

\* what setup records: run.rs 153, 158-159, 171
FullRecord(ks, n, m) ==
    {"fwmark"} \cup DnsRules(n) \cup PxRules(m)
    \cup (IF ks THEN {"killswitch"} ELSE {})

InitTeardown ==
    /\ front = "cli"
    /\ killswitch \in BOOLEAN
    /\ keepLogs \in BOOLEAN
    /\ nDns \in 0..MaxDns
    /\ nPx \in 0..MaxPx
    /\ preRules \in ForeignPrefs /\ extRules = preRules
    /\ recorded = FullRecord(killswitch, nDns, nPx)
    /\ persisted = recorded
    /\ kernel = recorded \cup {"route", "mark"}
    /\ files = {"lock", "state"}
    /\ shutdownFired = FALSE /\ stackRunning = FALSE
    /\ teardownRuns = 1 /\ sigSeen = "none" /\ result = "none"
    /\ tdLog = <<>> /\ tdFailed = {} /\ tdFirst = <<{}, {}, {}>>
    /\ lpc = TdSkip("td_fw")

\* teardown is called again with the same State value
TeardownAgain ==
    /\ LifeOnly
    /\ lpc = "returned" /\ teardownRuns = 1
    /\ teardownRuns' = 2
    /\ tdLog' = <<>>
    /\ result' = "none"
    /\ lpc' = TdSkip("td_fw")
    /\ UNCHANGED <<front, killswitch, keepLogs, nDns, nPx, shutdownFired, stackRunning,
                   sigSeen, kernel, recorded, persisted, files,
                   preRules, extRules, tdFailed, tdFirst>>

NextTeardown == TeardownStep \/ TeardownFiles \/ TeardownAgain

InitT == InitTeardown /\ FlowIdle /\ LockIdle /\ PktIdle /\ ExtIdle

SpecTeardown == InitT /\ [][NextTeardown]_vars

\* C24: a second teardown with the same State value returns Ok, and when no removal
\* of either run failed it leaves the routing rules, table 100, the netfilter tables
\* and the state files as the first one left them.
C24_TeardownIdempotent ==
    (lpc = "returned" /\ teardownRuns = 2) =>
        /\ result = "ok"
        /\ tdFailed = {} => <<kernel, extRules, files>> = tdFirst

\* C24 witness: the second teardown of a run with kill-switch and bypass rules has
\* returned; it tried every removal again although the first one left nothing.
C24_Witness ==
    /\ lpc = "returned" /\ teardownRuns = 2 /\ tdFailed = {}
    /\ killswitch /\ nDns = 2 /\ nPx = 1 /\ keepLogs
    /\ tdLog = TdOrder /\ tdFirst = <<{}, preRules, {"state"}>>

----------------------------------------------------------------------------
(* The priorities of setup (run.rs 141-160) on snapshots of existing_rule_prefs  *)
(* that hold the values the three searches start at.                            *)

\* the rules another owner may hold, at and behind the values the searches start at
ForeignBlocks == {{200}, {201}, {202, 203}, {300}, {301}, {1000}, {1001}}

\* run.rs 132-142: setup has installed the route and read the snapshot
InitAlloc ==
    /\ front \in {"cli", "gui"}
    /\ killswitch = FALSE /\ keepLogs = FALSE
    /\ nDns \in 0..MaxDns
    /\ nPx \in 0..MaxPx
    /\ preRules \in {UNION B : B \in SUBSET ForeignBlocks} /\ extRules = preRules
    /\ kernel = {"route"} /\ recorded = {} /\ persisted = {} /\ files = {"lock"}
    /\ shutdownFired = FALSE /\ stackRunning = FALSE
    /\ teardownRuns = 0 /\ sigSeen = "none" /\ result = "none"
    /\ tdLog = <<>> /\ tdFailed = {} /\ tdFirst = <<{}, {}, {}>>
    /\ lpc = "s_prefs"

NextAlloc ==
    \/ SetupPrefs \/ SetupMark \/ SetupFwmark \/ WriteState \/ SetupDnsRule
    \/ SetupPxRule \/ SetupKill

InitB == InitAlloc /\ FlowIdle /\ LockIdle /\ PktIdle /\ ExtIdle

SpecAlloc == InitB /\ [][NextAlloc]_vars

\* the priorities of the rules installed so far, in the order of their allocation
Allocated ==
    (IF "fwmark" \in kernel THEN <<TcpPref>> ELSE <<>>)
    \o SubSeq(DnsPrefs, 1, Cardinality(kernel \cap DnsRules(nDns)))
    \o SubSeq(PxPrefs, 1, Cardinality(kernel \cap PxRules(nPx)))

----------------------------------------------------------------------------
(* The lock file: two processes in StateStore::create_lock (state/lib.rs 87-127) on
   the same state directory.  Process p has PID p; PID 0 belongs to a process that
   no longer exists. *)

LockOnly == UNCHANGED <<flowVars, lifeVars, pktVars, extVars>>

Procs == {1, 2}

InitLock ==
    /\ lockFile \in {NoFile,
                     [present |-> TRUE, owner |-> 0, content |-> 0],
                     [present |-> TRUE, owner |-> 0, content |-> -1]}
    /\ ppc = <<"exists", "exists">>
    /\ alive = <<TRUE, TRUE>>
    /\ holds = <<FALSE, FALSE>>
    /\ clobbered = FALSE
    /\ atCall = <<NoCall, NoCall>>

\* state/lib.rs 89: self.lock_path.exists()
LockExists(p) ==
    /\ LockOnly
    /\ ppc[p] = "exists"
    /\ ppc' = [ppc EXCEPT ![p] = IF lockFile.present THEN "stale" ELSE "create"]
    /\ atCall' = [atCall EXCEPT ![p] = [file |-> lockFile, alive |-> alive]]
    /\ UNCHANGED <<lockFile, alive, holds, clobbered>>

\* a stale-lock test that looks at the text of the file only
IsStaleNoProc(f) == ~f.present \/ f.content \in {-2, -1}

\* state/lib.rs 109-127: is_lock_stale on what the file holds now: a missing file, a
\* file without a parsable PID, or the PID of a process with no /proc entry
IsStale(f) ==
    \/ ~f.present
    \/ f.content = -2
    \/ f.content = -1
    \/ f.content = 0
    \/ (f.content \in Procs /\ ~alive[f.content])

LockStale(p) ==
    /\ LockOnly
    /\ ppc[p] = "stale"
    /\ ppc' = [ppc EXCEPT ![p] = IF IsStale(lockFile) THEN "remove" ELSE "create"]
    /\ UNCHANGED <<lockFile, alive, holds, clobbered, atCall>>

\* state/lib.rs 90-91: remove_file deletes whatever file has the name now
LockRemove(p) ==
    /\ LockOnly
    /\ ppc[p] = "remove"
    /\ clobbered' = (clobbered \/ (/\ lockFile.present
                                  /\ lockFile.owner \in Procs \ {p}
                                  /\ alive[lockFile.owner]))
    /\ lockFile' = NoFile
    /\ ppc' = [ppc EXCEPT ![p] = "create"]
    /\ UNCHANGED <<alive, holds, atCall>>

\* state/lib.rs 94-98: create_new fails when the file exists
LockCreate(p) ==
    /\ LockOnly
    /\ ppc[p] = "create"
    /\ IF lockFile.present
       THEN /\ ppc' = [ppc EXCEPT ![p] = "failed"]
            /\ UNCHANGED lockFile
       ELSE /\ lockFile' = [present |-> TRUE, owner |-> p, content |-> -1]
            /\ ppc' = [ppc EXCEPT ![p] = "write"]
    /\ UNCHANGED <<alive, holds, clobbered, atCall>>

\* state/lib.rs 99-105: the PID is written through the open handle, then Ok
LockWrite(p) ==
    /\ LockOnly
    /\ ppc[p] = "write"
    /\ lockFile' = IF lockFile.present /\ lockFile.owner = p
                   THEN [lockFile EXCEPT !.content = p]
                   ELSE lockFile
    /\ ppc' = [ppc EXCEPT ![p] = "ok"]
    /\ holds' = [holds EXCEPT ![p] = TRUE]
    /\ UNCHANGED <<alive, clobbered, atCall>>

\* a process that took the lock dies without teardown; its lock file stays
LockCrash(p) ==
    /\ LockOnly
    /\ ppc[p] = "ok"
    /\ ppc' = [ppc EXCEPT ![p] = "dead"]
    /\ alive' = [alive EXCEPT ![p] = FALSE]
    /\ holds' = [holds EXCEPT ![p] = FALSE]
    /\ UNCHANGED <<lockFile, clobbered, atCall>>

\* state/lib.rs 150-151: at teardown remove_state_files deletes the file named lock
LockRelease(p) ==
    /\ LockOnly
    /\ ppc[p] = "ok"
    /\ clobbered' = (clobbered \/ (/\ lockFile.present
                                  /\ lockFile.owner \in Procs \ {p}
                                  /\ alive[lockFile.owner]))
    /\ lockFile' = NoFile
    /\ ppc' = [ppc EXCEPT ![p] = "released"]
    /\ holds' = [holds EXCEPT ![p] = FALSE]
    /\ UNCHANGED <<alive, atCall>>

\* the program is started again after create_lock failed
LockRetry(p) ==
    /\ LockOnly
    /\ ppc[p] = "failed"
    /\ ppc' = [ppc EXCEPT ![p] = "exists"]
    /\ UNCHANGED <<lockFile, alive, holds, clobbered, atCall>>

LockExistsAny == \E p \in Procs : LockExists(p)
LockStaleAny == \E p \in Procs : LockStale(p)
LockRemoveAny == \E p \in Procs : LockRemove(p)
LockCreateAny == \E p \in Procs : LockCreate(p)
LockWriteAny == \E p \in Procs : LockWrite(p)
LockCrashAny == \E p \in Procs : LockCrash(p)
LockReleaseAny == \E p \in Procs : LockRelease(p)
LockRetryAny == \E p \in Procs : LockRetry(p)

NextLock ==
    \/ LockExistsAny \/ LockStaleAny \/ LockRemoveAny \/ LockCreateAny
    \/ LockWriteAny \/ LockCrashAny \/ LockReleaseAny \/ LockRetryAny

InitK == InitLock /\ FlowIdle /\ LifeIdle /\ PktIdle /\ ExtIdle

SpecLock == InitK /\ [][NextLock]_vars

\* C7: of two processes running create_lock on the same state directory at most one
\* succeeds (while both are alive), and no create_lock deletes the lock file of
\* another process that is still alive.
C7_LockMutualExclusion == ~(holds[1] /\ holds[2]) /\ ~clobbered

----------------------------------------------------------------------------
(* create_lock without a concurrent caller: the two processes call create_lock *)
(* one after the other; while one is inside the call the other is not.         *)

\* no other process is inside create_lock
Solo(p) == \A q \in Procs \ {p} : ppc[q] \notin {"stale", "remove", "create", "write"}

InitLockSolo ==
    /\ lockFile \in {NoFile} \cup [present : {TRUE}, owner : {0}, content : {-2, -1, 0}]
    /\ ppc = <<"exists", "exists">>
    /\ alive = <<TRUE, TRUE>>
    /\ holds = <<FALSE, FALSE>>
    /\ clobbered = FALSE
    /\ atCall = <<NoCall, NoCall>>

SoloExists == \E p \in Procs : Solo(p) /\ LockExists(p)
SoloStale == \E p \in Procs : Solo(p) /\ LockStale(p)
SoloRemove == \E p \in Procs : Solo(p) /\ LockRemove(p)
SoloCreate == \E p \in Procs : Solo(p) /\ LockCreate(p)
SoloWrite == \E p \in Procs : Solo(p) /\ LockWrite(p)
SoloCrash == \E p \in Procs : Solo(p) /\ LockCrash(p)
SoloRelease == \E p \in Procs : Solo(p) /\ LockRelease(p)
SoloRetry == \E p \in Procs : Solo(p) /\ LockRetry(p)

NextLockSolo ==
    \/ SoloExists \/ SoloStale \/ SoloRemove \/ SoloCreate
    \/ SoloWrite \/ SoloCrash \/ SoloRelease \/ SoloRetry

InitO == InitLockSolo /\ FlowIdle /\ LifeIdle /\ PktIdle /\ ExtIdle

SpecLockSolo == InitO /\ [][NextLockSolo]_vars

\* the lock file a call found was missing or stale: unreadable, without a parsable
\* PID, or naming a PID without /proc entry
FoundFree(c) ==
    \/ ~c.file.present
    \/ c.file.content \in {-2, -1, 0}
    \/ ~c.alive[c.file.content]

\* C25: without a concurrent caller, create_lock returns Ok only when the lock file
\* it found was missing or stale, and the file then holds the caller's PID; it fails
\* only when the file it found names a live PID, and then the file is as it was found.
C25_CreateLockAlone ==
    [][\A p \in Procs :
         /\ (ppc[p] # "ok" /\ ppc'[p] = "ok")
              => (/\ FoundFree(atCall[p])
                  /\ lockFile' = [present |-> TRUE, owner |-> p, content |-> p])
         /\ (ppc[p] # "failed" /\ ppc'[p] = "failed")
              => (~FoundFree(atCall[p]) /\ lockFile' = atCall[p].file)]_vars

\* C25 witness: process 2 took the lock and crashed; process 1 then found the file
\* with the PID of the dead process and took the lock.
C25_Witness ==
    /\ ppc[1] = "ok" /\ ppc[2] = "dead"
    /\ atCall[1].file = [present |-> TRUE, owner |-> 2, content |-> 2]
    /\ lockFile = [present |-> TRUE, owner |-> 1, content |-> 1]


----------------------------------------------------------------------------
(* The output path of a locally generated packet through what setup installs: the
   connection-mark chain (mark/nft.rs), the policy-routing rules (netlink/lib.rs,
   app/config.rs) and the kill-switch chain (firewall/nft.rs).

   Addresses: "P1" a proxy address known at setup, "P2" a proxy address the
   connector resolves at flow time that setup did not know, "P6" an IPv6 proxy
   address, "D1" and "D6" DNS servers (IPv4, IPv6), "W" and "W6" any other host, "L"
   loopback. *)

PktOnly == UNCHANGED <<flowVars, lifeVars, lockVars, extVars>>

V4Addrs == {"P1", "P2", "D1", "W", "L"}
V6Addrs == {"P6", "D6", "W6"}
Fam(a) == IF a \in V6Addrs THEN 6 ELSE 4

\* run.rs 22: SO_MARK of every upstream proxy socket
PROXY_BYPASS_MARK == 2
\* run.rs 143: the value the connection-mark chain sets and the fwmark rule matches
MARK_VALUE == 1
\* netlink/lib.rs 98: the mask of the fwmark rule
FW_MASK == 1
\* ports: the configured proxy port, the DNS port 53 (firewall/nft.rs 164-166) and
\* any other port
ProxyPort == "proxy_port"
DnsPort == "53"
OtherPort == "443"

\* netlink/lib.rs 97-115: the rule matches when (mark & mask) == (value & mask); the
\* mask is a single bit
FwmarkMatch(m, value, mask) == (m \div mask) % 2 = (value \div mask) % 2

\* filter(|ip| ip.is_ipv4()) on a list of addresses
RECURSIVE OnlyV4(_)
OnlyV4(ips) ==
    IF ips = <<>> THEN <<>>
    ELSE IF Fam(Head(ips)) = 4 THEN <<Head(ips)>> \o OnlyV4(Tail(ips))
    ELSE OnlyV4(Tail(ips))

SeqSet(q) == {q[i] : i \in 1..Len(q)}

\* mark/nft.rs 143-153: the last rule of the chain: every TCP packet gets the mark
SetMarkRule(mark) == [kind |-> "tcp_setmark", mark |-> mark]

\* the set-mark rule ahead of the accepts of the excluded addresses
MarkRulesSetFirst(mark, exclude_ips) ==
    <<[kind |-> "nontcp_accept"], SetMarkRule(mark)>>
    \o [i \in 1..Len(OnlyV4(exclude_ips)) |->
          [kind |-> "daddr_accept", ip |-> OnlyV4(exclude_ips)[i]]]

\* mark/nft.rs 12-54 and 75-107: the rule list of the connection-mark chain
MarkRules(mark, exclude_ips) ==
    <<[kind |-> "nontcp_accept"]>>
    \o [i \in 1..Len(OnlyV4(exclude_ips)) |->
          [kind |-> "daddr_accept", ip |-> OnlyV4(exclude_ips)[i]]]
    \o <<SetMarkRule(mark)>>

\* the chain is evaluated top to bottom; accept ends the evaluation, a set-mark rule
\* does not; the policy of the chain is accept.  The result is the packet's mark.
RECURSIVE EvalMark(_, _, _)
EvalMark(rules, p, m) ==
    IF rules = <<>> THEN m
    ELSE LET r == Head(rules)
         IN CASE r.kind = "nontcp_accept" ->
                   IF p.proto # "tcp" THEN m ELSE EvalMark(Tail(rules), p, m)
              [] r.kind = "daddr_accept" ->
                   IF p.fam = 4 /\ p.daddr = r.ip THEN m
                   ELSE EvalMark(Tail(rules), p, m)
              [] OTHER ->
                   EvalMark(Tail(rules), p, IF p.proto = "tcp" THEN r.mark ELSE m)

\* firewall/nft.rs 132-171: the rule list of the kill-switch chain (policy drop)
FwRules(c) ==
    <<[kind |-> "oif", oif |-> "lo"], [kind |-> "oif", oif |-> "tun"],
      [kind |-> "mark", mark |-> c.proxy_mark]>>
    \o [i \in 1..Len(OnlyV4(c.proxy_ips)) |->
          [kind |-> "daddr", ip |-> OnlyV4(c.proxy_ips)[i], proto |-> "tcp",
           dport |-> c.proxy_port]]
    \o (IF c.allow_udp_dns
        THEN [i \in 1..Len(OnlyV4(c.dns_ips)) |->
                [kind |-> "daddr", ip |-> OnlyV4(c.dns_ips)[i], proto |-> "udp",
                 dport |-> DnsPort]]
        ELSE <<>>)
    \o [i \in 1..Len(OnlyV4(c.dns_ips)) |->
          [kind |-> "daddr", ip |-> OnlyV4(c.dns_ips)[i], proto |-> "tcp",
           dport |-> DnsPort]]

FwMatch(r, p) ==
    CASE r.kind = "oif" -> p.oif = r.oif
      [] r.kind = "mark" -> p.mark = r.mark
      [] OTHER -> p.fam = 4 /\ p.daddr = r.ip /\ p.proto = r.proto /\ p.dport = r.dport

\* first match accepts; no match: the policy drops
EvalFw(rules, p) ==
    IF \E i \in 1..Len(rules) : FwMatch(rules[i], p) THEN "accept" ELSE "drop"

\* run.rs 169: the mark handed to the kill-switch as proxy_mark
KillSwitchMarkArg == MARK_VALUE

\* the routing decision for a local packet with mark m: the local table, then the
\* bypass rules (priorities 200.., 300..; config.rs 80-99), then the fwmark rule
\* (priority 1000, IPv4 only, netlink/lib.rs 97-115) into table 100, whose lookup falls
\* through to the main table when table 100 holds no route
Route(c, p, m) ==
    IF p.daddr = "L" THEN "lo"
    ELSE IF p.fam = 6 THEN "eth0"
    ELSE IF p.daddr \in SeqSet(OnlyV4(c.dns_allow)) \cup SeqSet(OnlyV4(c.proxy_ips))
         THEN "eth0"
    ELSE IF FwmarkMatch(m, c.fwmark, FW_MASK) /\ c.routeUp
         THEN "tun"
    ELSE "eth0"

InitPkt == pkt = NoPkt /\ cfg = NoCfg /\ qpc = "idle" /\ verdict = "pending"

\* run.rs 100-176: what setup installs for the proxy IPs and the DNS allow-list it was
\* given; the route of table 100 may be gone later (tunnel dead)
PktSetup ==
    /\ PktOnly
    /\ qpc = "idle"
    /\ \E pips \in {<<"P1">>, <<"P1", "P6">>, <<"P6">>},
          dns \in {<<>>, <<"D1">>},
          ks \in BOOLEAN, up \in BOOLEAN :
         cfg' = [proxy_ips |-> pips, dns_allow |-> dns, killswitch |-> ks,
                 routeUp |-> up,
                 markRules |-> MarkRules(MARK_VALUE, pips \o dns),
                 fwRules |-> IF ks
                             THEN FwRules([proxy_ips |-> pips, proxy_port |-> ProxyPort,
                                           dns_ips |-> dns, allow_udp_dns |-> dns # <<>>,
                                           proxy_mark |-> KillSwitchMarkArg])
                             ELSE <<>>,
                 ksMark |-> IF ks THEN KillSwitchMarkArg ELSE 0,
                 fwmark |-> MARK_VALUE]
    /\ qpc' = "socket"
    /\ UNCHANGED <<pkt, verdict>>

\* a local socket sends a packet: an upstream proxy socket (proxy/lib.rs 117-162)
\* carries SO_MARK and sends TCP to the address resolved at flow time on the proxy
\* port; any other socket is unmarked. The packet's mark starts as the socket's mark.
PktSend ==
    /\ PktOnly
    /\ qpc = "socket"
    /\ \/ \E a \in {"P1", "P2", "P6"} :
            pkt' = [fam |-> Fam(a), proto |-> "tcp", daddr |-> a, dport |-> ProxyPort,
                    sockmark |-> PROXY_BYPASS_MARK, mark |-> PROXY_BYPASS_MARK,
                    oif |-> Route(cfg, [daddr |-> a, fam |-> Fam(a)], PROXY_BYPASS_MARK)]
       \/ \E a \in V4Addrs \cup V6Addrs, pr \in {"tcp", "udp", "icmp"},
             dp \in {ProxyPort, DnsPort, OtherPort} :
            pkt' = [fam |-> Fam(a), proto |-> pr, daddr |-> a, dport |-> dp,
                    sockmark |-> 0, mark |-> 0,
                    oif |-> Route(cfg, [daddr |-> a, fam |-> Fam(a)], 0)]
    /\ qpc' = "mangle"
    /\ UNCHANGED <<cfg, verdict>>

\* output hook, priority -150, type route: the connection-mark chain; a changed mark
\* makes the kernel route the packet again
PktMangle ==
    /\ PktOnly
    /\ qpc = "mangle"
    /\ LET m == EvalMark(cfg.markRules, pkt, pkt.mark)
       IN pkt' = [pkt EXCEPT !.mark = m,
                             !.oif = IF m # pkt.mark THEN Route(cfg, pkt, m) ELSE @]
    /\ qpc' = "filter"
    /\ UNCHANGED <<cfg, verdict>>

\* output hook, priority 0: the kill-switch chain, when installed
PktFilter ==
    /\ PktOnly
    /\ qpc = "filter"
    /\ verdict' = IF cfg.killswitch THEN EvalFw(cfg.fwRules, pkt) ELSE "accept"
    /\ qpc' = "done"
    /\ UNCHANGED <<cfg, pkt>>

NextPkt == PktSetup \/ PktSend \/ PktMangle \/ PktFilter

InitP == InitPkt /\ FlowIdle /\ LifeIdle /\ LockIdle /\ ExtIdle

SpecPkt == InitP /\ [][NextPkt]_vars

\* C8: with the kill-switch and the connection-mark rules installed, a local packet
\* that no upstream proxy socket sent is accepted on an interface other than lo and
\* the TUN only if it is TCP to a resolved proxy IP on the proxy port, or TCP/UDP
\* port 53 to an allow-listed DNS IP; also with table 100 empty and for IPv6 TCP.
C8_KillSwitchNoLeak ==
    (/\ qpc = "done" /\ cfg.killswitch /\ verdict = "accept"
     /\ pkt.sockmark # PROXY_BYPASS_MARK
     /\ pkt.oif \notin {"lo", "tun"})
    => \/ /\ pkt.proto = "tcp" /\ pkt.dport = ProxyPort
          /\ pkt.daddr \in SeqSet(cfg.proxy_ips)
       \/ /\ pkt.proto \in {"tcp", "udp"} /\ pkt.dport = DnsPort
          /\ pkt.daddr \in SeqSet(cfg.dns_allow)

\* C9: the mark the kill-switch's mark-accept rule matches is the proxy-bypass mark
\* 0x2 set on every upstream proxy socket, and differs from the set-mark value 0x1.
C9_KillSwitchMatchesBypassMark ==
    (qpc # "idle" /\ cfg.killswitch)
    => (cfg.ksMark = PROXY_BYPASS_MARK /\ cfg.ksMark # MARK_VALUE)

\* C10: a TCP packet of an upstream proxy socket is never given mark 0x1 by the
\* connection-mark chain, never matches the fwmark rule and is never routed into the
\* TUN, whatever address the connector resolved for the proxy host.
C10_ProxySocketNotRecaptured ==
    (qpc \in {"filter", "done"} /\ pkt.sockmark = PROXY_BYPASS_MARK /\ pkt.proto = "tcp")
    => /\ pkt.mark # MARK_VALUE
       /\ ~FwmarkMatch(pkt.mark, cfg.fwmark, FW_MASK)
       /\ pkt.oif # "tun"

\* C11: no IPv6 packet is ever marked: for every IPv6 packet, IPv6 TCP included, the
\* installed connection-mark chain leaves the packet's mark as the socket set it.
C11_NoIPv6Marked ==
    (qpc \in {"filter", "done"} /\ pkt.fam = 6) => pkt.mark = pkt.sockmark

----------------------------------------------------------------------------
(* The kill-switch rule list as a function of the FirewallConfig and the packet
   (firewall/nft.rs apply_native, the backend NftBackend::apply tries first). *)

FwOnly == UNCHANGED <<coreVars, applyVars, stackVars, pureVars>>

\* firewall/lib.rs 11-18: the configs; proxy_ips and dns_ips are lists of IpAddr of
\* either family (config.rs 9-21, 59-78)
FwConfigs ==
    [proxy_ips : {<<"P1">>, <<"P6">>, <<"P1", "P6">>},
     proxy_port : {ProxyPort},
     dns_ips : {<<>>, <<"D1">>, <<"D6">>, <<"D1", "D6">>},
     allow_udp_dns : BOOLEAN,
     proxy_mark : {MARK_VALUE, PROXY_BYPASS_MARK}]

\* the egress packets
FwPackets ==
    {[fam |-> Fam(a), proto |-> pr, daddr |-> a, dport |-> dp, sockmark |-> 0,
      mark |-> m, oif |-> o] :
        a \in (V4Addrs \cup V6Addrs) \ {"L"}, pr \in {"tcp", "udp"},
        dp \in {ProxyPort, DnsPort, OtherPort},
        m \in {0, MARK_VALUE, PROXY_BYPASS_MARK}, o \in {"lo", "tun", "eth0"}}

InitFw ==
    /\ fwc \in FwConfigs
    /\ fwr = <<>> /\ fwp = NoPkt /\ fwv = "pending" /\ fpc = "build"

\* firewall/nft.rs 132-171: apply_native builds the batch
FwBuild ==
    /\ FwOnly
    /\ fpc = "build"
    /\ fwr' = FwRules(fwc)
    /\ fpc' = "packet"
    /\ UNCHANGED <<fwc, fwp, fwv>>

\* a packet reaches the output hook
FwEgress ==
    /\ FwOnly
    /\ fpc = "packet"
    /\ fwp' \in FwPackets
    /\ fpc' = "eval"
    /\ UNCHANGED <<fwc, fwr, fwv>>

\* the chain is evaluated: first match accepts, the policy drops
FwEvaluate ==
    /\ FwOnly
    /\ fpc = "eval"
    /\ fwv' = EvalFw(fwr, fwp)
    /\ fpc' = "done"
    /\ UNCHANGED <<fwc, fwr, fwp>>

NextFw == FwBuild \/ FwEgress \/ FwEvaluate

InitF == InitFw /\ CoreIdle /\ ApplyIdle /\ StackIdle /\ PureIdle

SpecFw == InitF /\ [][NextFw]_vars

\* C13: for every FirewallConfig the built kill-switch rule list accepts an egress
\* packet iff its output interface is lo or the TUN, or its mark equals the configured
\* mark, or it is TCP to a proxy IP on the proxy port, or TCP to an allow-listed DNS IP
\* on port 53, or UDP to an allow-listed DNS IP on port 53 with allow_udp_dns set;
\* every other packet is dropped.
C13_KillSwitchAcceptsIff ==
    fpc = "done" =>
      (fwv = "accept" <=>
         \/ fwp.oif \in {"lo", "tun"}
         \/ fwp.mark = fwc.proxy_mark
         \/ /\ fwp.proto = "tcp" /\ fwp.dport = fwc.proxy_port
            /\ fwp.daddr \in SeqSet(fwc.proxy_ips)
         \/ /\ fwp.proto = "tcp" /\ fwp.dport = DnsPort
            /\ fwp.daddr \in SeqSet(fwc.dns_ips)
         \/ /\ fwp.proto = "udp" /\ fwp.dport = DnsPort /\ fwc.allow_udp_dns
            /\ fwp.daddr \in SeqSet(fwc.dns_ips))

----------------------------------------------------------------------------
(* Applying the kill-switch: NftBackend::apply (firewall/lib.rs 30-45) calls
   apply_native and, when that fails, the command backend. *)

ApplyOnly == UNCHANGED <<coreVars, fwVars, stackVars, pureVars>>

\* firewall/nft.rs 144-166: lo, the TUN and the mark, one per IPv4 proxy IP, one or
\* two per IPv4 DNS IP
RuleCounts == {3 + p + d * u : p \in 0..MaxPx, d \in 0..MaxDns, u \in 1..2}

InitApply ==
    /\ prevTable \in {"none", "old"}
    /\ ktable = prevTable
    /\ aRules \in RuleCounts
    /\ aPriv \in [root : BOOLEAN, nft : BOOLEAN]
    /\ apc = "n_delete" /\ ares = "none" /\ aDone = 0

\* nft.rs 140 and 173-181: delete_table sends a batch of its own that holds only the
\* deletion; its result is ignored
NativeDelete ==
    /\ ApplyOnly
    /\ apc = "n_delete"
    /\ \E ok \in BOOLEAN : ktable' = IF ok THEN "none" ELSE ktable
    /\ apc' = "n_iface"
    /\ UNCHANGED <<prevTable, ares, aRules, aDone, aPriv>>

\* nft.rs 146-147: iface_index of lo and of the TUN; an unknown interface is an error
NativeIface ==
    /\ ApplyOnly
    /\ apc = "n_iface"
    /\ \E ok \in BOOLEAN : apc' = IF ok THEN "n_commit" ELSE "fallback"
    /\ UNCHANGED <<ktable, prevTable, ares, aRules, aDone, aPriv>>

\* nft.rs 142-170: the batch of table, chain and rules is sent; the kernel applies it
\* whole or not at all
NativeCommit ==
    /\ ApplyOnly
    /\ apc = "n_commit"
    /\ \/ ktable' = "new" /\ apc' = "done" /\ ares' = "ok"
       \/ ktable' = ktable /\ apc' = "fallback" /\ ares' = ares
    /\ UNCHANGED <<prevTable, aRules, aDone, aPriv>>

\* lib.rs 34-40: after an error of apply_native
ApplyFallback ==
    /\ ApplyOnly
    /\ apc = "fallback"
    /\ IF aPriv.root /\ aPriv.nft
       THEN apc' = "c_delete" /\ ares' = ares
       ELSE apc' = "done" /\ ares' = "err"
    /\ UNCHANGED <<ktable, prevTable, aRules, aDone, aPriv>>

\* nft.rs 121-125: the first command (delete table) may fail
CmdDelete ==
    /\ ApplyOnly
    /\ apc = "c_delete"
    /\ \E ok \in BOOLEAN : ktable' = IF ok THEN "none" ELSE ktable
    /\ apc' = "c_chain"
    /\ UNCHANGED <<prevTable, ares, aRules, aDone, aPriv>>

\* nft.rs 126-127 with 21-27: add table, add chain with policy drop
CmdChain ==
    /\ ApplyOnly
    /\ apc = "c_chain"
    /\ \/ ktable' = "partial" /\ apc' = "c_rule" /\ ares' = ares
       \/ ktable' = ktable /\ apc' = "done" /\ ares' = "err"
    /\ UNCHANGED <<prevTable, aRules, aDone, aPriv>>

\* nft.rs 126-127 with 28-110: one add rule command
CmdRule ==
    /\ ApplyOnly
    /\ apc = "c_rule"
    /\ \/ /\ aDone' = aDone + 1
          /\ IF aDone + 1 = aRules
             THEN ktable' = "new" /\ apc' = "done" /\ ares' = "ok"
             ELSE ktable' = ktable /\ apc' = apc /\ ares' = ares
       \/ aDone' = aDone /\ ktable' = ktable /\ apc' = "done" /\ ares' = "err"
    /\ UNCHANGED <<prevTable, aRules, aPriv>>

NextApply ==
    \/ NativeDelete \/ NativeIface \/ NativeCommit \/ ApplyFallback
    \/ CmdDelete \/ CmdChain \/ CmdRule

InitA == InitApply /\ CoreIdle /\ FwIdle /\ StackIdle /\ PureIdle

SpecApply == InitA /\ [][NextApply]_vars

\* C14: applying the kill-switch through the native backend is atomic: at every moment
\* before the command fallback starts either the complete previous table or the
\* complete new one is in force, and an apply that fails natively leaves the previous
\* table installed.
C14_NativeApplyAtomic ==
    (apc \in {"n_delete", "n_iface", "n_commit", "fallback"} \/ (apc = "done" /\ aDone = 0))
    => (ktable \in {prevTable, "new"} /\ (ares = "err" => ktable = prevTable))

----------------------------------------------------------------------------
(* run_tun_stack over all its flows (stack.rs 26-134): the three collections, the
   walk over the handles and the bridge tasks, without the bytes. *)

StackOnly == UNCHANGED <<coreVars, fwVars, applyVars, pureVars>>

\* the keys of the SYNs the applications send: "k1" and "k2" to the same destination
\* from two source ports, "k0" to destination port 0
Keys == {"k1", "k2", "k0"}
DstPort(k) == IF k = "k0" THEN 0 ELSE 443

\* smoltcp listen (outside the repository): port 0 is Unaddressable
ListenOk(k) == DstPort(k) # 0

MapPut(f, k, v) == [x \in DOMAIN f \cup {k} |-> IF x = k THEN v ELSE f[x]]
MapDel(f, k) == [x \in DOMAIN f \ {k} |-> f[x]]

\* smoltcp SocketSet::add: the first free slot
FreeHandle == CHOOSE h \in 1..(Cardinality(DOMAIN sockets) + 1) : h \notin DOMAIN sockets

\* sockets.iter_mut(): the handles in slot order
RECURSIVE HandleSeq(_)
HandleSeq(S) ==
    IF S = {} THEN <<>>
    ELSE LET m == CHOOSE x \in S : \A y \in S : x <= y
         IN <<m>> \o HandleSeq(S \ {m})

\* conn.rs 29-42: ConnState::new; task is the bridge task of the flow, chan: the
\* from_proxy channel holds a chunk, pend: pending_from_proxy holds a chunk, spawned
\* the number of tasks created for the flow
NewConn(k) == [key |-> k, connected |-> FALSE, task |-> "none", chan |-> FALSE,
               pend |-> FALSE, spawned |-> 0]

InitStack ==
    /\ spc = "select" /\ scause = "none" /\ by_key = EmptyMap /\ conns = EmptyMap
    /\ sockets = EmptyMap /\ walk = <<>> /\ nFlows = 0 /\ dropped = {}
    /\ dupSyn = FALSE /\ fired = FALSE

\* run_tun_stack returns: its locals, the three collections among them, are dropped
StackReturn(cause) ==
    /\ spc' = "returned" /\ scause' = cause
    /\ by_key' = EmptyMap /\ conns' = EmptyMap /\ sockets' = EmptyMap /\ walk' = <<>>

\* stack.rs 57: by_key.entry(key) is Vacant
KeyVacant(k) == k \notin DOMAIN by_key

\* stack.rs 52-63: a SYN is sniffed; for a vacant key create_socket and ConnState::new,
\* an error of create_socket is returned with `?`
StkSyn ==
    /\ StackOnly
    /\ spc = "select" /\ nFlows < MaxFlows
    /\ \E k \in Keys :
         IF KeyVacant(k)
         THEN IF ListenOk(k)
              THEN /\ by_key' = MapPut(by_key, k, FreeHandle)
                   /\ sockets' = MapPut(sockets, FreeHandle, "Listen")
                   /\ conns' = MapPut(conns, FreeHandle, NewConn(k))
                   /\ nFlows' = nFlows + 1
                   /\ spc' = "poll"
                   /\ UNCHANGED <<scause, walk, dupSyn>>
              ELSE StackReturn("listen_failed") /\ UNCHANGED <<nFlows, dupSyn>>
         ELSE /\ spc' = "poll" /\ dupSyn' = TRUE
              /\ UNCHANGED <<scause, by_key, conns, sockets, walk, nFlows>>
    /\ UNCHANGED <<dropped, fired>>

\* stack.rs 52-56, 63 and 69: a packet that is no SYN, or the poll timer
StkWake ==
    /\ StackOnly
    /\ spc = "select"
    /\ spc' = "poll"
    /\ UNCHANGED <<scause, by_key, conns, sockets, walk, nFlows, dropped, dupSyn, fired>>

\* run.rs 85: the owner fires the shutdown sender, or drops it, and the loop has not
\* seen it yet
ShutdownFire ==
    /\ StackOnly
    /\ spc # "returned" /\ ~fired
    /\ fired' = TRUE
    /\ UNCHANGED <<spc, scause, by_key, conns, sockets, walk, nFlows, dropped, dupSyn>>

\* stack.rs 49-51: the owner has fired the shutdown sender (run.rs 85), before this
\* select or during its wait, and the select takes the branch
StkShutdown ==
    /\ StackOnly
    /\ spc = "select"
    /\ fired' = TRUE
    /\ StackReturn("shutdown")
    /\ UNCHANGED <<nFlows, dropped, dupSyn>>

\* stack.rs 65-66: the TUN stream ends or fails
StkTunEnd ==
    /\ StackOnly
    /\ spc = "select"
    /\ \E c \in {"tun_closed", "tun_error"} : StackReturn(c)
    /\ UNCHANGED <<nFlows, dropped, dupSyn, fired>>
\* stack.rs 72-75: iface.poll moves every socket on; then the handles are collected
StkPoll ==
    /\ StackOnly
    /\ spc = "poll"
    /\ sockets' \in {f \in [DOMAIN sockets -> {"Listen", "SynReceived", "Established",
                                              "CloseWait", "Closed"}] :
                       \A h \in DOMAIN sockets : f[h] \in PollStates(sockets[h])}
    /\ walk' = HandleSeq(DOMAIN sockets)
    /\ spc' = IF DOMAIN sockets = {} THEN "tx" ELSE "walk"
    /\ UNCHANGED <<scause, by_key, conns, nFlows, dropped, dupSyn, fired>>

\* conn.rs 89-91 without the assignment of connected
SpawnProxyTaskForgets(c) ==
    IF c.connected THEN c
    ELSE [c EXCEPT !.task = "connecting", !.spawned = @ + 1, !.chan = FALSE]

\* conn.rs 44-92: spawn_proxy_task: nothing when connected; else a new task, new
\* channels and connected = true
SpawnProxyTask(c) ==
    IF c.connected THEN c
    ELSE [c EXCEPT !.task = "connecting", !.spawned = @ + 1, !.chan = FALSE,
                   !.connected = TRUE]

\* stack.rs 78-110: the first part of the visit of the handle at the head of the walk:
\* spawn, drain of the channel, send loop (send_slice cannot fail right after
\* can_send() was true), recv
StkVisit ==
    /\ StackOnly
    /\ spc = "walk"
    /\ LET h == Head(walk)
           c0 == conns[h]
           c1 == IF ~c0.connected /\ sockets[h] = "Established"
                 THEN SpawnProxyTask(c0) ELSE c0
           c2 == [c1 EXCEPT !.pend = @ \/ c1.chan, !.chan = FALSE]
       IN \E allWritten \in BOOLEAN :
            /\ allWritten => c2.pend /\ sockets[h] \in {"Established", "CloseWait"}
            /\ conns' = [conns EXCEPT ![h] = [c2 EXCEPT !.pend = @ /\ ~allWritten]]
    /\ spc' = "check"
    /\ UNCHANGED <<scause, by_key, sockets, walk, nFlows, dropped, dupSyn, fired>>

\* closed only once a task that completed its handshake has ended
FromProxyClosedAfterOpen(c) == c.task = "ended"

\* tokio mpsc Receiver::is_closed() of the flow's from_proxy: the sender of new() is
\* dropped at once (conn.rs 31), the task's sender when the task ends
FromProxyClosed(c) == c.task \in {"none", "failed", "ended"}

\* a retain that leaves every key of by_key in place
RetainNone(bk, h) == bk
\* stack.rs 124: by_key.retain(|_, v| *v != handle)
RetainOthers(bk, h) == [k \in {x \in DOMAIN bk : bk[x] # h} |-> bk[k]]

\* stack.rs 112-126: the two removal tests and the removal
StkCheck ==
    /\ StackOnly
    /\ spc = "check"
    /\ LET h == Head(walk)
           c == conns[h]
           byState == sockets[h] \in {"Closed", "TimeWait"}
           byUpstream == c.connected /\ FromProxyClosed(c) /\ ~c.pend
       IN /\ IF byState \/ byUpstream
             THEN /\ conns' = MapDel(conns, h)
                  /\ by_key' = RetainOthers(by_key, h)
                  /\ sockets' = MapDel(sockets, h)
             ELSE UNCHANGED <<conns, by_key, sockets>>
          /\ dropped' = IF byUpstream /\ c.task = "failed"
                        THEN dropped \cup {c.key} ELSE dropped
    /\ walk' = Tail(walk)
    /\ spc' = IF Tail(walk) = <<>> THEN "tx" ELSE "walk"
    /\ UNCHANGED <<scause, nFlows, dupSyn, fired>>

\* stack.rs 129-131: the packets of the engine are written to the TUN
StkTx ==
    /\ StackOnly
    /\ spc = "tx"
    /\ \/ spc' = "select" /\ UNCHANGED <<scause, by_key, conns, sockets, walk>>
       \/ StackReturn("tx_error")
    /\ UNCHANGED <<nFlows, dropped, dupSyn, fired>>

TaskFrame == UNCHANGED <<spc, scause, by_key, sockets, walk, nFlows, dropped, dupSyn, fired>>

\* conn.rs 59: connect_http_connect_with returns Err: the task ends
TaskFail ==
    /\ StackOnly
    /\ \E h \in DOMAIN conns :
         /\ conns[h].task = "connecting"
         /\ conns' = [conns EXCEPT ![h].task = "failed"]
    /\ TaskFrame

\* conn.rs 59-62: the handshake succeeded; a leftover is sent on tx_to_local
TaskOk ==
    /\ StackOnly
    /\ \E h \in DOMAIN conns, leftover \in BOOLEAN :
         /\ conns[h].task = "connecting"
         /\ conns' = [conns EXCEPT ![h].task = "open", ![h].chan = @ \/ leftover]
    /\ TaskFrame

\* conn.rs 76-81: a chunk read from the upstream is sent on tx_to_local
TaskRead ==
    /\ StackOnly
    /\ \E h \in DOMAIN conns :
         /\ conns[h].task = "open"
         /\ conns' = [conns EXCEPT ![h].chan = TRUE]
    /\ TaskFrame

\* conn.rs 64-66, 72-74, 78, 82: the task ends after a successful handshake
TaskEnd ==
    /\ StackOnly
    /\ \E h \in DOMAIN conns :
         /\ conns[h].task = "open"
         /\ conns' = [conns EXCEPT ![h].task = "ended"]
    /\ TaskFrame

NextStack ==
    \/ StkSyn \/ StkWake \/ StkShutdown \/ StkTunEnd
    \/ StkPoll \/ StkVisit \/ StkCheck \/ StkTx
    \/ TaskFail \/ TaskOk \/ TaskRead \/ TaskEnd

InitS == InitStack /\ CoreIdle /\ FwIdle /\ ApplyIdle /\ PureIdle

SpecStack == InitS /\ [][NextStack]_vars
\* C15: no failure confined to a single flow makes run_tun_stack return: it returns
\* only on shutdown or on the end or a failure of the TUN device itself.
C15_FlowFailureKeepsLoop ==
    spc = "returned" => scause \in {"shutdown", "tun_closed", "tun_error", "tx_error"}

\* C17: after every iteration of the TUN loop there is exactly one flow per key:
\* by_key is injective, its values are the handles of conns and of the socket set, the
\* ConnState under a handle carries the key that maps to the handle, and no two
\* ConnStates carry the same key.
C17_OneFlowPerKey ==
    spc = "select" =>
      /\ \A j, k \in DOMAIN by_key : by_key[j] = by_key[k] => j = k
      /\ {by_key[k] : k \in DOMAIN by_key} = DOMAIN conns
      /\ DOMAIN conns = DOMAIN sockets
      /\ \A h \in DOMAIN conns :
           conns[h].key \in DOMAIN by_key /\ by_key[conns[h].key] = h
      /\ \A g, h \in DOMAIN conns : conns[g].key = conns[h].key => g = h

\* C17 witness: two flows are registered at the top of the loop under two handles and a
\* SYN for a key that was present has been sniffed.
C17_Witness ==
    /\ spc = "select" /\ nFlows = MaxFlows /\ DOMAIN by_key = {"k1", "k2"} /\ dupSyn
    /\ by_key["k1"] # by_key["k2"]

\* C18: at most one bridge task is ever created per flow: a flow has one task exactly
\* when connected is true, and none before.
C18_OneTaskPerFlow ==
    \A h \in DOMAIN conns :
       conns[h].spawned = (IF conns[h].connected THEN 1 ELSE 0)

\* C18 witness: a connected flow whose socket is Established is visited again by the
\* loop: a chunk of its running task has been drained in a later visit.
C18_Witness ==
    \E h \in DOMAIN conns :
       /\ spc = "check" /\ Head(walk) = h /\ sockets[h] = "Established"
       /\ conns[h].connected /\ conns[h].task = "open" /\ conns[h].pend
\* the loop never waits for ever: the sleep of the select fires after poll_delay
\* (stack.rs 43-46, 69), the rest of an iteration is straight-line code, and the
\* runtime runs every spawned task
SpecStackLive ==
    /\ InitS /\ [][NextStack]_vars
    /\ WF_vars(StkWake) /\ WF_vars(StkPoll) /\ WF_vars(StkVisit)
    /\ WF_vars(StkCheck) /\ WF_vars(StkTx)

\* a SYN for key k is sniffed and registers a flow
SynCreates(k) == StkSyn /\ k \in DOMAIN by_key'

\* C16: when the upstream connect or the CONNECT handshake of a flow fails, the flow is
\* eventually removed from by_key, conns and the socket set, by the abort of its
\* engine socket unless run_tun_stack has returned and dropped all three; and whenever
\* the loop waits for a packet, a SYN for an absent key, also a key whose flow was
\* dropped, registers a new flow.
C16_FailedFlowDropped ==
    /\ \A k \in {"k1", "k2"} :
         (k \in DOMAIN by_key /\ conns[by_key[k]].task = "failed")
         ~> (/\ k \notin DOMAIN by_key
             /\ \A h \in DOMAIN conns : conns[h].key # k
             /\ DOMAIN conns = DOMAIN sockets
             /\ (k \in dropped \/ spc = "returned"))
    /\ [](\A k \in {"k1", "k2"} :
            (spc = "select" /\ nFlows < MaxFlows /\ k \notin DOMAIN by_key)
            => ENABLED SynCreates(k))

\* C16 witness: the flow of k1 was aborted after its upstream failed, and a later SYN
\* with the same key has registered a new flow, which has no task yet.
C16_Witness ==
    /\ "k1" \in dropped /\ "k1" \in DOMAIN by_key
    /\ conns[by_key["k1"]].task = "none"

\* the loop with a shutdown that the select does not take at once: select! polls its
\* branches from a random one (stack.rs 48 is not `biased`), so a branch that is
\* ready in every round is taken in some round: strong fairness for the shutdown
\* branch once the sender was fired
NextStackDown == ShutdownFire \/ NextStack

SpecStackDown ==
    /\ InitS /\ [][NextStackDown]_vars
    /\ WF_vars(StkWake) /\ WF_vars(StkPoll) /\ WF_vars(StkVisit)
    /\ WF_vars(StkCheck) /\ WF_vars(StkTx)
    /\ SF_vars(fired /\ StkShutdown)

\* stack.rs 50, 66 and 133: the breaks of the loop lead to Ok(())
ReturnsOk == {"shutdown", "tun_closed"}
\* stack.rs 65 and 130: a failure of the TUN device itself
DeviceFailure == {"tun_error", "tx_error"}

\* C28: once the owner has fired or dropped the shutdown sender, run_tun_stack
\* returns after finitely many rounds of its select, and it returns Ok, whatever
\* packets arrive meanwhile (a failing read or write of the TUN device apart).
C28_ShutdownReturnsOk ==
    fired ~> (spc = "returned" /\ scause \in ReturnsOk \cup DeviceFailure)

-----------------------------------------------------------------------------
(* The SYN sniffer (packet.rs)                                             *)
(*                                                                         *)
(* A packet is described by what the checked parsers of the engine's wire  *)
(* module report about it (Ipv4Packet::new_checked, TcpPacket::new_checked)*)
(* and by the header fields sniff_syn reads.                               *)

SniffOnly == UNCHANGED <<coreVars, fwVars, applyVars, stackVars, connVars, callVars>>

SniffPackets ==
    [ip_checked : BOOLEAN, proto : {"tcp", "udp", "icmp"}, tcp_checked : BOOLEAN,
     syn : BOOLEAN, ack : BOOLEAN,
     src_ip : {"10.0.0.2", "10.0.0.3"}, src_port : {"12345", "45000"},
     dst_ip : {"1.2.3.4", "5.6.7.8"}, dst_port : {"443", "80"}]

SniffSome(packet) ==
    [some |-> TRUE,
     key |-> [src_ip |-> packet.src_ip, src_port |-> packet.src_port,
              dst_ip |-> packet.dst_ip, dst_port |-> packet.dst_port]]

\* sniff_syn without the test of the ACK flag
sniff_syn_any_ack(packet) ==
    IF ~packet.ip_checked THEN SniffNone
    ELSE IF packet.proto # "tcp" THEN SniffNone
    ELSE IF ~packet.tcp_checked THEN SniffNone
    ELSE IF ~packet.syn THEN SniffNone
    ELSE SniffSome(packet)

sniff_syn(packet) ==
    IF ~packet.ip_checked THEN SniffNone
    ELSE IF packet.proto # "tcp" THEN SniffNone
    ELSE IF ~packet.tcp_checked THEN SniffNone
    ELSE IF ~packet.syn \/ packet.ack THEN SniffNone
    ELSE SniffSome(packet)

InitSniff ==
    /\ snpc = "packet"
    /\ snpkt \in SniffPackets
    /\ snres = SniffNone

SniffSyn ==
    /\ snpc = "packet"
    /\ snres' = sniff_syn(snpkt)
    /\ snpc' = "done"
    /\ UNCHANGED snpkt
    /\ SniffOnly

NextSniff == SniffSyn

InitN == InitSniff /\ CoreIdle /\ FwIdle /\ ApplyIdle /\ StackIdle /\ ConnIdle /\ CallIdle

SpecSniff == InitN /\ [][NextSniff]_vars

\* C19: sniff_syn returns a key exactly for a packet that passes the checked IPv4
\* parse, carries TCP, passes the checked TCP parse and has SYN set and ACK clear;
\* the key is the packet's source address, source port, destination address and
\* destination port.
C19_SniffSynIff ==
    snpc = "done" =>
        /\ snres.some <=> (/\ snpkt.ip_checked /\ snpkt.proto = "tcp"
                           /\ snpkt.tcp_checked /\ snpkt.syn /\ ~snpkt.ack)
        /\ snres.some =>
             /\ snres.key.src_ip = snpkt.src_ip
             /\ snres.key.src_port = snpkt.src_port
             /\ snres.key.dst_ip = snpkt.dst_ip
             /\ snres.key.dst_port = snpkt.dst_port
        /\ ~snres.some => snres.key = NoKey

\* C19 witness: a SYN without ACK from 10.0.0.2:45000 to 1.2.3.4:443 was sniffed and
\* produced its key.
C19_Witness ==
    /\ snpc = "done" /\ snres.some
    /\ snpkt.syn /\ ~snpkt.ack
    /\ snres.key = [src_ip |-> "10.0.0.2", src_port |-> "45000",
                    dst_ip |-> "1.2.3.4", dst_port |-> "443"]

-----------------------------------------------------------------------------
(* The CONNECT handshake (proxy/lib.rs)                                    *)
(*                                                                         *)
(* The proxy's answer is a sequence of tokens: a status line ("200", "407",*)
(* or "junk" for a line that is no HTTP status line), header lines "H",    *)
(* the empty line "E" that completes the terminator \r\n\r\n, and the      *)
(* bytes "d1", "d2" of the tunnel.  Lines end in \r\n.                     *)

ConnOnly == UNCHANGED <<coreVars, fwVars, applyVars, stackVars, sniffVars, callVars>>

MaxHdrLines == 4

\* 16 * 1024 bytes, scaled to tokens
HdrLimit == 4

\* let mut tmp = [0u8; 512]: the most one read returns, scaled to tokens
TmpLen == 3

RECURSIVE Lines(_)
Lines(n) == IF n = 0 THEN <<>> ELSE <<"H">> \o Lines(n - 1)

TunnelBytes == {<<>>, <<"d1">>, <<"d1", "d2">>}

Responses ==
    { <<st>> \o Lines(n) \o tail :
        st \in {"200", "407", "junk"}, n \in 0..MaxHdrLines,
        tail \in {<<>>} \cup { <<"E">> \o d : d \in TunnelBytes } }

\* buf.windows(4).any(|w| w == b"\r\n\r\n")
Terminated(buf) == \E i \in 1..Len(buf) : buf[i] = "E"

\* httparse::Response::parse: Err for a malformed status line, else Complete(n) with
\* n the length of the header block, else Partial
Parse(buf) ==
    IF buf[1] = "junk" THEN [st |-> "err", n |-> 0, code |-> "-"]
    ELSE IF Terminated(buf)
         THEN [st |-> "complete",
               n |-> CHOOSE i \in 1..Len(buf) :
                        buf[i] = "E" /\ \A j \in 1..(i - 1) : buf[j] # "E",
               code |-> buf[1]]
         ELSE [st |-> "partial", n |-> 0, code |-> "-"]

\* a leftover that keeps the last line of the header block
LeftoverFromTerminator(buf, n) == SubSeq(buf, n, Len(buf))

\* buf[n..].to_vec()
Leftover(buf, n) == SubSeq(buf, n + 1, Len(buf))

\* the match on res.parse(&buf)?
Outcome(buf) ==
    LET r == Parse(buf) IN
    IF r.st = "err" THEN ConnectErr("malformed", "-")
    ELSE IF r.st = "partial" THEN ConnectErr("incomplete", "-")
    ELSE IF r.code # "200" THEN ConnectErr("rejected", r.code)
    ELSE [kind |-> "ok", stream |-> TRUE, some |-> r.n < Len(buf),
          leftover |-> Leftover(buf, r.n), code |-> r.code]

InitConnect ==
    /\ cpc = "connect"
    /\ cresp \in Responses
    /\ ccloses \in BOOLEAN
    /\ crd = 0 /\ ceof = FALSE
    /\ cres = ConnectErr("none", "-")

\* connect_proxy_stream and write_all of the request
CnConnect ==
    /\ cpc = "connect"
    /\ \E ok \in BOOLEAN :
         IF ok THEN cpc' = "read" /\ UNCHANGED cres
         ELSE cpc' = "done" /\ cres' = ConnectErr("io_error", "-")
    /\ UNCHANGED <<cresp, ccloses, crd, ceof>>
    /\ ConnOnly

\* stream.read fails
CnReadErr ==
    /\ cpc = "read"
    /\ cpc' = "done" /\ cres' = ConnectErr("io_error", "-")
    /\ UNCHANGED <<cresp, ccloses, crd, ceof>>
    /\ ConnOnly

\* stream.read returns 0: the proxy has closed and everything it sent was read
CnReadEof ==
    /\ cpc = "read"
    /\ ccloses /\ crd = Len(cresp)
    /\ ceof' = TRUE
    /\ cpc' = "done" /\ cres' = ConnectErr("peer_closed", "-")
    /\ UNCHANGED <<cresp, ccloses, crd>>
    /\ ConnOnly

\* stream.read returns n > 0 bytes: one turn of the read loop, and the parse when the
\* terminator has arrived
CnReadData ==
    /\ cpc = "read"
    /\ \E n \in 1..Min(TmpLen, Len(cresp) - crd) :
         LET buf == SubSeq(cresp, 1, crd + n) IN
         /\ crd' = crd + n
         /\ IF Terminated(buf)
            THEN cpc' = "done" /\ cres' = Outcome(buf)
            ELSE IF Len(buf) > HdrLimit
                 THEN cpc' = "done" /\ cres' = ConnectErr("too_large", "-")
                 ELSE cpc' = "read" /\ UNCHANGED cres
    /\ UNCHANGED <<cresp, ccloses, ceof>>
    /\ ConnOnly

NextConnect == CnConnect \/ CnReadErr \/ CnReadEof \/ CnReadData

InitC == InitConnect /\ CoreIdle /\ FwIdle /\ ApplyIdle /\ StackIdle /\ SniffIdle /\ CallIdle

SpecConnect == InitC /\ [][NextConnect]_vars

\* the bytes received so far
Received == SubSeq(cresp, 1, crd)

\* C20: connect returns a stream only after a complete header with status 200, and
\* then the leftover is exactly what was received after the terminator (None when
\* nothing was); a close of the proxy before the terminator fails as "proxy closed",
\* a complete header with another status fails as rejected with that status, and no
\* failure returns a stream.
C20_ConnectOutcome ==
    cpc = "done" =>
        /\ cres.stream <=> cres.kind = "ok"
        /\ cres.stream =>
             /\ Terminated(Received) /\ Received[1] = "200"
             /\ \E i \in 1..crd :
                  /\ Received[i] = "E" /\ \A j \in 1..(i - 1) : Received[j] # "E"
                  /\ cres.leftover = [k \in 1..(crd - i) |-> Received[i + k]]
                  /\ cres.some <=> (i < crd)
        /\ ceof => (~Terminated(Received) /\ cres.kind = "peer_closed")
        /\ (Terminated(Received) /\ Received[1] = "407")
             => (cres.kind = "rejected" /\ cres.code = "407")
        /\ ~cres.stream => (~cres.some /\ cres.leftover = <<>>)

\* C20 witness: the proxy answered 200 with a header line and sent two bytes of the
\* tunnel behind the terminator; both came back as leftover.
C20_Witness ==
    /\ cpc = "done" /\ cres.stream /\ cres.some
    /\ cres.leftover = <<"d1", "d2">>
    /\ Received[2] = "H"

\* the bytes received in front of the terminator, all of them while it is missing
BeforeTerminator ==
    IF Terminated(Received)
    THEN (CHOOSE i \in 1..crd :
            Received[i] = "E" /\ \A j \in 1..(i - 1) : Received[j] # "E") - 1
    ELSE crd

\* C21: whenever more than the limit (16 KiB) was received in front of the header
\* terminator, connect has failed as too large, also when the terminator came in the
\* read that took the total past the limit.
C21_HeaderTooLarge ==
    (cpc = "done" /\ BeforeTerminator > HdrLimit) => cres.kind = "too_large"

-----------------------------------------------------------------------------
(* Functions of crates/app applied to arguments drawn from bounded sets       *)

CallOnly == UNCHANGED <<coreVars, fwVars, applyVars, stackVars, sniffVars, connVars>>

CallInit == CoreIdle /\ FwIdle /\ ApplyIdle /\ StackIdle /\ SniffIdle /\ ConnIdle

(* next_pref (config.rs 112-118) on priorities of the width 0..PrefMax, called
   MaxCalls times on the same set with the same start value. `wraps` tells whether
   the build wraps on overflow or panics. *)

InitPref ==
    /\ fnpc = "call"
    /\ fnin \in [prefs : SUBSET (0..PrefMax), pref : 0..PrefMax, wraps : BOOLEAN]
    /\ fnout = [prefs |-> fnin.prefs, before |-> fnin.prefs, ret |-> <<>>]

PrefCall ==
    /\ fnpc = "call" /\ Len(fnout.ret) < MaxCalls
    /\ LET p == NextPrefW(fnout.prefs, fnin.pref, PrefMax, fnin.wraps, FALSE)
       IN IF p = -1
          THEN fnpc' = "stuck" /\ UNCHANGED fnout
          ELSE /\ fnout' = [prefs |-> fnout.prefs \cup {p}, before |-> fnout.prefs,
                            ret |-> Append(fnout.ret, p)]
               /\ UNCHANGED fnpc
    /\ UNCHANGED fnin
    /\ CallOnly

NextPref == PrefCall

InitR == InitPref /\ CallInit

SpecPref == InitR /\ [][NextPref]_vars

\* C26: every call of next_pref returns, and returns the least priority from the
\* start value on that is not in the set, adds it to the set and changes no other
\* member; the values of repeated calls increase strictly.
C26_NextPrefLeastFree ==
    /\ fnpc # "stuck"
    /\ Len(fnout.ret) > 0 =>
         LET p == fnout.ret[Len(fnout.ret)]
         IN /\ p >= fnin.pref /\ p \notin fnout.before
            /\ \A q \in fnin.pref..(p - 1) : q \in fnout.before
            /\ fnout.prefs = fnout.before \cup {p}
    /\ \A i \in 1..(Len(fnout.ret) - 1) : fnout.ret[i] < fnout.ret[i + 1]

(* resolve_dns_allow_from (config.rs 59-78) on the caller's allow-list, the optional
   extra DNS IP and the addresses parsed from the two resolv files *)

DnsAddrs == {"127.0.0.53", "1.1.1.1", "9.9.9.9"}
NoDns == "none"

\* util/dns.rs 42-47
is_loopback(ip) == ip = "127.0.0.53"

IpLists == UNION {[1..n -> DnsAddrs] : n \in 0..MaxList}

\* config.rs 101-110: an address is pushed when it was not seen before
RECURSIVE dedup_ips(_)
dedup_ips(ips) ==
    IF ips = <<>> THEN <<>>
    ELSE LET out == dedup_ips(SubSeq(ips, 1, Len(ips) - 1))
             ip == ips[Len(ips)]
         IN IF \E i \in 1..Len(out) : out[i] = ip THEN out ELSE Append(out, ip)

\* config.rs 59-78
resolve_dns_allow_from(args, resolv, systemd) ==
    LET only_loopback == resolv # <<>> /\ \A i \in 1..Len(resolv) : is_loopback(resolv[i])
        ips == IF args.allow_dns # <<>> THEN args.allow_dns
               ELSE IF (resolv = <<>> \/ only_loopback) /\ systemd # <<>>
                    THEN resolv \o systemd
                    ELSE resolv
    IN dedup_ips(IF args.dns # NoDns THEN <<args.dns>> \o ips ELSE ips)

InitDns ==
    /\ fnpc = "call"
    /\ fnin \in [args : [allow_dns : IpLists, dns : DnsAddrs \cup {NoDns}],
                 resolv : IpLists, systemd : IpLists]
    /\ fnout = <<>>

DnsCall ==
    /\ fnpc = "call"
    /\ fnout' = resolve_dns_allow_from(fnin.args, fnin.resolv, fnin.systemd)
    /\ fnpc' = "done"
    /\ UNCHANGED fnin
    /\ CallOnly

NextDns == DnsCall

InitD == InitDns /\ CallInit

SpecDns == InitD /\ [][NextDns]_vars

\* out holds the addresses of ips once each, in the order of their first occurrences
KeepsFirst(out, ips) ==
    /\ {out[i] : i \in 1..Len(out)} = {ips[i] : i \in 1..Len(ips)}
    /\ \A i, j \in 1..Len(out) : i < j =>
          /\ out[i] # out[j]
          /\ \E m \in 1..Len(ips) :
                ips[m] = out[i] /\ \A n \in 1..Len(ips) : ips[n] = out[j] => m < n

\* the extra DNS IP, when given, in front of ips
WithExtra(ips) == IF fnin.args.dns # NoDns THEN <<fnin.args.dns>> \o ips ELSE ips

\* C29: without an explicit allow-list, when resolv.conf yields only loopback
\* addresses or nothing, the resolved allow-list is the addresses of the systemd resolv
\* file with the extra DNS IP in front, each once in the order of first occurrence;
\* an explicit allow-list takes the place of the addresses of both files.
C29_DnsAllowFromSystemd ==
    fnpc = "done" =>
      /\ (/\ fnin.args.allow_dns = <<>>
          /\ \A i \in 1..Len(fnin.resolv) : is_loopback(fnin.resolv[i]))
         => KeepsFirst(fnout, WithExtra(fnin.systemd))
      /\ fnin.args.allow_dns # <<>> => KeepsFirst(fnout, WithExtra(fnin.args.allow_dns))

(* ensure_tun_cidr_free and find_overlapping_addr (tun.rs 7-42) on addresses of
   AddrBits bits *)

AddrMax == 2^AddrBits - 1
HostLists == UNION {[1..n -> 0..AddrMax] : n \in 0..MaxList}
\* Option::None of find_overlapping_addr
NoAddr == -1
\* what netlink.ipv4_addrs() returned: Ok(addrs) or Err
Listings == [ok : {TRUE}, addrs : HostLists] \cup {[ok |-> FALSE, addrs |-> <<>>]}

\* the operator & on two addresses
RECURSIVE BitAnd(_, _)
BitAnd(a, b) ==
    IF a = 0 \/ b = 0 THEN 0
    ELSE (a % 2) * (b % 2) + 2 * BitAnd(a \div 2, b \div 2)

\* u32::checked_shl: None, here 0 by unwrap_or(0), when the shift is not below the
\* width; else the bits shifted out are lost
checked_shl(x, n) == IF n >= AddrBits THEN 0 ELSE (x * 2^n) % 2^AddrBits

\* a shift whose amount wraps at the width
wrapping_shl(x, n) == (x * 2^(n % AddrBits)) % 2^AddrBits

\* the mask without the test of prefix 0 and with a wrapping shift
mask_wrapping(prefix) == wrapping_shl(AddrMax, AddrBits - prefix)

\* tun.rs 29-33
mask(prefix) == IF prefix = 0 THEN 0 ELSE checked_shl(AddrMax, AddrBits - prefix)

\* tun.rs 24-42: the first address of the list inside the subnet of the TUN
find_overlapping_addr(addrs, tun_ip, prefix) ==
    LET tun_net == BitAnd(tun_ip, mask(prefix))
        hits == {i \in 1..Len(addrs) : BitAnd(addrs[i], mask(prefix)) = tun_net}
    IN IF hits = {} THEN NoAddr
       ELSE addrs[CHOOSE i \in hits : \A j \in hits : i <= j]

\* tun.rs 7-22: listing is what netlink.ipv4_addrs() returned
ensure_tun_cidr_free(listing, tun_ip, prefix) ==
    IF ~listing.ok THEN "list_err"
    ELSE IF find_overlapping_addr(listing.addrs, tun_ip, prefix) # NoAddr THEN "overlap"
    ELSE "ok"

InitTun ==
    /\ fnpc = "call"
    /\ fnin \in [listing : Listings, tun_ip : 0..AddrMax, prefix : 0..AddrBits]
    /\ fnout = <<>>

TunCall ==
    /\ fnpc = "call"
    /\ fnout' = [overlap |-> IF ~fnin.listing.ok THEN NoAddr
                             ELSE find_overlapping_addr(fnin.listing.addrs,
                                                        fnin.tun_ip, fnin.prefix),
                 res |-> ensure_tun_cidr_free(fnin.listing, fnin.tun_ip, fnin.prefix)]
    /\ fnpc' = "done"
    /\ UNCHANGED fnin
    /\ CallOnly

NextTun == TunCall

InitU == InitTun /\ CallInit

SpecTun == InitU /\ [][NextTun]_vars

\* the top p bits of an address set, none for p = 0
TopBits(p) == 2^AddrBits - 2^(AddrBits - p)

\* address a lies in the subnet of the TUN address t with prefix length p
InTunSubnet(a, t, p) == BitAnd(a, TopBits(p)) = BitAnd(t, TopBits(p))

\* C30: for every list of host addresses, TUN address and prefix length from 0 to the
\* width, find_overlapping_addr returns an address exactly when some address of the
\* list agrees with the TUN address under the mask of the top prefix bits (mask 0 for
\* prefix 0), the address returned is the first such one of the list, and
\* ensure_tun_cidr_free fails with the overlap exactly then.
C30_OverlapIffInSubnet ==
    (fnpc = "done" /\ fnin.listing.ok) =>
      LET addrs == fnin.listing.addrs
          hit(i) == InTunSubnet(addrs[i], fnin.tun_ip, fnin.prefix)
      IN /\ (fnout.overlap # NoAddr) <=> (\E i \in 1..Len(addrs) : hit(i))
         /\ fnout.overlap # NoAddr =>
               \E i \in 1..Len(addrs) :
                  /\ hit(i) /\ addrs[i] = fnout.overlap
                  /\ \A j \in 1..(i - 1) : ~hit(j)
         /\ (fnout.res = "overlap") <=> (\E i \in 1..Len(addrs) : hit(i))
         /\ (fnout.res = "ok") <=> ~(\E i \in 1..Len(addrs) : hit(i))

\* C30 witness: with a prefix strictly inside the width the first address of the list
\* lies outside the subnet and the second, a different address from the TUN's, inside:
\* the second is returned and ensure_tun_cidr_free fails.
C30_Witness ==
    /\ fnpc = "done" /\ fnin.listing.ok /\ Len(fnin.listing.addrs) = 2
    /\ fnin.prefix \in 1..(AddrBits - 1)
    /\ ~InTunSubnet(fnin.listing.addrs[1], fnin.tun_ip, fnin.prefix)
    /\ fnin.listing.addrs[2] # fnin.tun_ip
    /\ fnout.overlap = fnin.listing.addrs[2] /\ fnout.res = "overlap"

(* The three ways the kill-switch is installed (firewall/nft.rs apply_native and
   build_cmds / apply_cmd, firewall/iptables.rs build_plan / apply), each applied to
   the same FirewallConfig and judged on the same egress packet *)

\* the rules for the proxy addresses as the command backends build them: one per
\* address of either family (nft.rs 60-76, iptables.rs 33-47)
CmdProxyRules(c) ==
    [i \in 1..Len(c.proxy_ips) |->
       [kind |-> "daddr", ip |-> c.proxy_ips[i], proto |-> "tcp", dport |-> c.proxy_port]]

\* nft.rs 78-109, iptables.rs 49-76: per IPv4 DNS address the UDP rule, when allowed,
\* and the TCP rule
RECURSIVE CmdDnsRules(_, _)
CmdDnsRules(ips, udp) ==
    IF ips = <<>> THEN <<>>
    ELSE (IF udp THEN <<[kind |-> "daddr", ip |-> Head(ips), proto |-> "udp",
                         dport |-> DnsPort]>>
          ELSE <<>>)
         \o <<[kind |-> "daddr", ip |-> Head(ips), proto |-> "tcp", dport |-> DnsPort]>>
         \o CmdDnsRules(Tail(ips), udp)

\* nft.rs 19-112: the rules of the argv list, behind the table and the chain
build_cmds(c) ==
    <<[kind |-> "oif", oif |-> "lo"], [kind |-> "oif", oif |-> "tun"],
      [kind |-> "mark", mark |-> c.proxy_mark]>>
    \o CmdProxyRules(c) \o CmdDnsRules(OnlyV4(c.dns_ips), c.allow_udp_dns)

\* iptables.rs 18-79: the rules of the plan between -N and the final DROP
build_plan(c) ==
    <<[kind |-> "oif", oif |-> "lo"], [kind |-> "oif", oif |-> "tun"],
      [kind |-> "mark", mark |-> c.proxy_mark]>>
    \o CmdProxyRules(c) \o CmdDnsRules(OnlyV4(c.dns_ips), c.allow_udp_dns)

\* nft `ip daddr` and iptables `-d` take IPv4 addresses: the tool refuses the command
\* for an IPv6 literal
ToolAccepts(r) == r.kind # "daddr" \/ Fam(r.ip) = 4

\* nft.rs 121-128, iptables.rs 90-93: the commands run in order, the first refused
\* one ends the run with Err
RECURSIVE RunCmds(_)
RunCmds(rules) ==
    IF rules = <<>> \/ ~ToolAccepts(Head(rules)) THEN <<>>
    ELSE <<Head(rules)>> \o RunCmds(Tail(rules))

\* the verdict of the inet table the nft commands leave: its chain has policy drop
\* from the third command on
NftCmdVerdict(c, p) == EvalFw(RunCmds(build_cmds(c)), p)

\* the verdict of what the iptables plan leaves: the chain sees IPv4 packets only,
\* and it is hooked into OUTPUT by the last command of the plan (iptables.rs 78-79)
IptablesVerdict(c, p) ==
    IF p.fam = 6 THEN "accept"
    ELSE IF RunCmds(build_plan(c)) # build_plan(c) THEN "accept"
    ELSE EvalFw(build_plan(c), p)

InitBackends ==
    /\ fnpc = "call"
    /\ fnin \in [cfg : FwConfigs, pkt : FwPackets]
    /\ fnout = <<>>

BackendsCall ==
    /\ fnpc = "call"
    /\ fnout' = [native |-> EvalFw(FwRules(fnin.cfg), fnin.pkt),
                 nft_cmd |-> NftCmdVerdict(fnin.cfg, fnin.pkt),
                 iptables |-> IptablesVerdict(fnin.cfg, fnin.pkt)]
    /\ fnpc' = "done"
    /\ UNCHANGED fnin
    /\ CallOnly

NextBackends == BackendsCall

InitBk == InitBackends /\ CallInit

SpecBackends == InitBk /\ [][NextBackends]_vars

\* C35: for every FirewallConfig, also one whose lists hold IPv6 addresses, the rule
\* set of each command backend accepts exactly the packets the rule set of the native
\* backend accepts.
C35_BackendsAgree ==
    fnpc = "done" => (fnout.nft_cmd = fnout.native /\ fnout.iptables = fnout.native)

\* C36: every flow whose engine socket completes the handshake eventually gets its
\* bridge task, also when the socket has left Established for CloseWait by the time
\* the loop visits it; the flow may instead be gone (reset, or the loop returned).
C36_HandshakeGetsTask ==
    \A k \in {"k1", "k2"} :
       (k \in DOMAIN by_key /\ sockets[by_key[k]] \in {"Established", "CloseWait"})
       ~> (k \notin DOMAIN by_key \/ conns[by_key[k]].connected)

\* C37: once the application has closed its side of an established flow whose bridge
\* task shuttles (the engine socket is in CloseWait), the flow is eventually removed
\* and its bridge task has ended, which closes the upstream stream, whatever the
\* upstream peer does; a flow that still holds bytes the application has not taken is
\* left aside.
C37_AppCloseEndsFlow ==
    (fl = "live" /\ sockState = "CloseWait" /\ bpc = "loop")
    ~> ((fl = "removed" /\ bpc = "done") \/ pending_from_proxy # <<>>)

\* C38: whenever run_with_args / run_vpn has returned after create_lock succeeded,
\* with Ok or with an error of any later step, the lock file is gone.
C38_LockRemovedOnReturn == lpc = "returned" => "lock" \notin files

----------------------------------------------------------------------------
(* NftBackend::remove (firewall/lib.rs 47-62) on a state that names the installed
   table: delete_table (nft.rs 173-181), then the command when delete_table failed *)

InitRemove ==
    /\ prevTable \in {"old", "partial", "new"}
    /\ ktable = prevTable
    /\ aRules \in RuleCounts
    /\ aPriv \in [root : BOOLEAN, nft : BOOLEAN]
    /\ apc = "r_native" /\ ares = "none" /\ aDone = 0

\* nft.rs 173-181: Err only for a table name CString::new refuses; otherwise the batch
\* is sent, the kernel deletes the table or does not, and the result of
\* send_and_process is discarded
DeleteTable ==
    /\ ApplyOnly
    /\ apc = "r_native"
    /\ \/ apc' = "r_err" /\ ktable' = ktable
       \/ \E sent \in BOOLEAN :
            /\ ktable' = IF sent THEN "none" ELSE ktable
            /\ apc' = "r_ok"
    /\ UNCHANGED <<prevTable, ares, aRules, aDone, aPriv>>

\* lib.rs 50: Ok(()) of delete_table; lib.rs 61
RemoveOk ==
    /\ ApplyOnly
    /\ apc = "r_ok"
    /\ apc' = "done" /\ ares' = "ok"
    /\ UNCHANGED <<ktable, prevTable, aRules, aDone, aPriv>>

\* lib.rs 51-58: Err of delete_table: the command when root and nft is there, else
\* the error is returned
RemoveErr ==
    /\ ApplyOnly
    /\ apc = "r_err"
    /\ IF aPriv.root /\ aPriv.nft
       THEN apc' = "r_cmd" /\ ares' = ares
       ELSE apc' = "done" /\ ares' = "err"
    /\ UNCHANGED <<ktable, prevTable, aRules, aDone, aPriv>>

\* lib.rs 54 and 61: nft delete table inet <table>, its failure allowed; then Ok
RemoveCmd ==
    /\ ApplyOnly
    /\ apc = "r_cmd"
    /\ \E ok \in BOOLEAN : ktable' = IF ok THEN "none" ELSE ktable
    /\ aDone' = aDone + 1
    /\ apc' = "done" /\ ares' = "ok"
    /\ UNCHANGED <<prevTable, aRules, aPriv>>

NextRemove == DeleteTable \/ RemoveOk \/ RemoveErr \/ RemoveCmd

InitRm == InitRemove /\ CoreIdle /\ FwIdle /\ StackIdle /\ PureIdle

SpecRemove == InitRm /\ [][NextRemove]_vars

\* C39: NftBackend::remove never returns Ok while the table is still installed unless
\* it has run the nft command: a native deletion that failed is followed by the
\* command, or its error is returned.
C39_RemoveFallsBack ==
    (apc = "done" /\ ares = "ok" /\ ktable # "none") => aDone > 0

====
